---------------------------- MODULE Spec2Model ----------------------------
(***************************************************************************)
(* A model of the pulse autoscaler: the event classifier (aggregator), the *)
(* replica controller (execute_scale and the ingress callback), the memory *)
(* optimiser, the node health monitor and the node-pool scaler.            *)
(*                                                                         *)
(* Representation of numbers.  Metric values (cpu, memory, error_rate,     *)
(* net_latency_ms) are fixed-point with two decimals: the integer v stands *)
(* for v/100, so cpu = 9000 is 90 % and error_rate = 501 is 5.01 %.  A     *)
(* scale multiplier is held in tenths (15 is 1.5).  Times are whole        *)
(* seconds.  An optional value (Python's None) is the empty sequence and a *)
(* present value v is <<v>>.                                               *)
(***************************************************************************)
EXTENDS Integers, Sequences, FiniteSets, TLC

VARIABLES
    now,              \* the wall clock read by now_ist_dt(), in seconds
    rawPayload,       \* aggregator: the payload of the request last handled by index()
    event,            \* aggregator: the event it published (None if it raised)
    sevTrace,         \* aggregator: the local `severity` after each rule of classify_event
    replicas,         \* cluster: spec.replicas of the workload deployment (0 models None/0)
    last_scale_time,  \* autoscaler.py: the global last_scale_time
    lastSuccess,      \* observation: the last successful replica patch (time, bypass flag)
    scaleLog,         \* observation: the last execute_scale call, its arguments and outcome
    memLimit,         \* cluster: resources.limits["memory"] of the first container
    memRequest,       \* cluster: resources.requests["memory"] of the first container
    oom_history,      \* MemoryOptimizer.oom_history: pod -> count and last_seen
    adjustment_history, \* MemoryOptimizer.adjustment_history of the workload
    memLog,           \* observation: the last MemoryOptimizer call and its outcome
    clusterNodes,     \* cluster: the nodes list_node returns
    nodes,            \* cluster: per node, Ready condition, spec.unschedulable, draining taint
    unhealthy_nodes,  \* NodeMonitor.unhealthy_nodes: node -> time first seen unhealthy
    quarantined_nodes, \* NodeMonitor.quarantined_nodes
    monLog,           \* observation: the last check_node_health call and its result
    metrics_window,   \* autoscaler.py: metrics_window.data
    crash_loop_pods,  \* autoscaler.py: crash_loop_pods, pod -> CrashLoopBackOff sightings
    cbLog,            \* observation: the last callback, its message, decision and acks
    added,            \* observation: the samples passed to direct MetricsWindow.add calls
    ssLog,            \* observation: the last direct should_scale call
    threads,          \* the two threads that call execute_scale, step by step
    loops,            \* the two background loops: where each is and what its last iteration did
    pool,             \* the node pool: its size and its Ready, cordoned, draining nodes
    ns_last_scale_time, \* node_scaler.py: NodeScaler.last_scale_time
    nsLog             \* observation: the last check_and_scale call and its request

aggVars   == <<rawPayload, event, sevTrace>>
scaleVars == <<replicas, last_scale_time, lastSuccess, scaleLog>>
memVars   == <<memLimit, memRequest, oom_history, adjustment_history, memLog>>
monVars   == <<clusterNodes, nodes, unhealthy_nodes, quarantined_nodes, monLog>>
cbVars    == <<metrics_window, crash_loop_pods, cbLog, added, ssLog>>
thrVars   == <<threads, loops>>
nsVars    == <<pool, ns_last_scale_time, nsLog>>
vars      == <<now, aggVars, scaleVars, memVars, monVars, cbVars, thrVars, nsVars>>

None    == <<>>
Some(v) == <<v>>

Max2(a, b) == IF a >= b THEN a ELSE b
Min2(a, b) == IF a <= b THEN a ELSE b

\* Fixed-point value of a whole number of percent / milliseconds.
Centi(x) == x * 100

-----------------------------------------------------------------------------
(***************************************************************************)
(* Bounds of the model.                                                    *)
(***************************************************************************)
MaxTime         == 60    \* the clock stops advancing here
MaxReplicasRead == 10    \* the largest replica count someone else sets on the workload
MaxTimeMem      == 600   \* the clock stops here in the memory optimiser's specification
MaxOomCount     == 3     \* OOM kills recorded per pod before the pod is left alone
MaxTimeMon      == 602   \* the clock stops here in the node monitor's specification
MaxTimeCritical == 2     \* the clock stops here in the CRITICAL-event specification
MaxTimeIngress  == 30    \* the clock stops here in the ingress specification
MaxOomIngress   == 2     \* OOM kills counted per pod in the ingress specification
MaxTimeRace     == 60    \* the clock stops here in the two-thread specification
MaxTimeNode     == 240   \* the clock stops here in the node scaler's specification
MaxPoolSize     == 6     \* the node scaler's specification stops growing the pool here
MaxUnready      == 1     \* nodes that are not Ready at once in that specification

-----------------------------------------------------------------------------
(***************************************************************************)
(* The clock.                                                              *)
(***************************************************************************)
\* The clock advances in steps that put 29, 30, 58, 59 and 60 s between two readings.
TickSteps == {29, 30}

Tick(d) ==
    /\ now + d <= MaxTime
    /\ now' = now + d

-----------------------------------------------------------------------------
(***************************************************************************)
(* aggregator.py: classify_event and index.                                *)
(***************************************************************************)
MetricKeys == {"cpu", "memory", "error_rate", "net_latency_ms"}

\* The values an agent reports for each key, at and just above the classifier's
\* thresholds (a missing key reads as 0, below all of them).
KeyVals(k) ==
    CASE k = "cpu"            -> {Centi(75), Centi(76), Centi(90), Centi(91)}
      [] k = "memory"         -> {Centi(90), Centi(91)}
      [] k = "error_rate"     -> {500, 501, 800, 801}
      [] k = "net_latency_ms" -> {Centi(400), Centi(401)}

AllKeyVals == UNION {KeyVals(k) : k \in MetricKeys}

\* Every metrics dictionary over a subset of the keys (a key may be missing).
MetricMaps ==
    UNION { {m \in [D -> AllKeyVals] : \A k \in D : m[k] \in KeyVals(k)}
            : D \in SUBSET MetricKeys }

LogTexts == {"CRITICAL: simulated service crash", "disk error"}

\* "CRITICAL" in log_msg
ContainsCritical(log_msg) == log_msg = "CRITICAL: simulated service crash"

\* A parsed agent payload: node_id, and metrics or log (either may be missing).
MetricPayloads == {[node_id |-> "node-1", metrics |-> Some(m), log |-> None] : m \in MetricMaps}
LogPayloads    == {[node_id |-> "node-1", metrics |-> None, log |-> l]
                     : l \in {Some(t) : t \in LogTexts} \cup {None}}
Payloads       == MetricPayloads \cup LogPayloads

\* m.get(key, 0)
MGet(m, key) == IF key \in DOMAIN m THEN m[key] ELSE 0

SeverityRank(s) ==
    CASE s = "INFO" -> 0 [] s = "WARNING" -> 1 [] s = "ERROR" -> 2 [] s = "CRITICAL" -> 3

\* A cpu rule whose upper threshold is inclusive.
RuleCpuInclusive(severity, cpu) ==
    IF cpu >= Centi(90) THEN "CRITICAL"
    ELSE IF cpu > Centi(75) THEN "WARNING"
    ELSE severity

\* if cpu > 90 ... elif cpu > 75 ...
RuleCpu(severity, cpu) ==
    IF cpu > Centi(90) THEN "CRITICAL"
    ELSE IF cpu > Centi(75) THEN "WARNING"
    ELSE severity

\* if mem > 90 ...
RuleMem(severity, mem) ==
    IF mem > Centi(90) THEN "CRITICAL" ELSE severity

\* A rule that replaces the severity by WARNING whatever it was.
RuleErrorRateDowngrading(severity, error_rate) ==
    IF error_rate > Centi(8) THEN "CRITICAL"
    ELSE IF error_rate > Centi(5) THEN "WARNING"
    ELSE severity

\* if error_rate > 8 ... elif error_rate > 5: if severity == "INFO" ...
RuleErrorRate(severity, error_rate) ==
    IF error_rate > Centi(8) THEN "CRITICAL"
    ELSE IF error_rate > Centi(5)
         THEN (IF severity = "INFO" THEN "WARNING" ELSE severity)
    ELSE severity

\* if latency > 400: if severity == "INFO" ...
RuleLatency(severity, latency) ==
    IF latency > Centi(400)
    THEN (IF severity = "INFO" THEN "WARNING" ELSE severity)
    ELSE severity

\* The local variable `severity` at its initialisation and after each of the four rules.
SeverityTrace(m) ==
    LET s0 == "INFO"
        s1 == RuleCpu(s0, MGet(m, "cpu"))
        s2 == RuleMem(s1, MGet(m, "memory"))
        s3 == RuleErrorRate(s2, MGet(m, "error_rate"))
        s4 == RuleLatency(s3, MGet(m, "net_latency_ms"))
    IN  <<s0, s1, s2, s3, s4>>

\* The list `reasons`, each entry the rule's tag and the value it formats.
Reasons(m) ==
    LET cpu        == MGet(m, "cpu")
        mem        == MGet(m, "memory")
        error_rate == MGet(m, "error_rate")
        latency    == MGet(m, "net_latency_ms")
    IN  (IF cpu > Centi(75) THEN <<<<"cpu>", cpu>>>> ELSE <<>>)
        \o (IF mem > Centi(90) THEN <<<<"mem>", mem>>>> ELSE <<>>)
        \o (IF error_rate > Centi(5) THEN <<<<"errors>", error_rate>>>> ELSE <<>>)
        \o (IF latency > Centi(400) THEN <<<<"latency>", latency>>>> ELSE <<>>)

\* classify_event raises (TypeError) when the payload has neither metrics nor log.
ClassifyRaises(data) == data.metrics = None /\ data.log = None

\* classify_event(data), for a payload on which it does not raise.
classify_event(data) ==
    IF data.metrics # None
    THEN LET m == data.metrics[1]
         IN  [timestamp  |-> now,
              source     |-> "aggregator",
              node_id    |-> data.node_id,
              event_type |-> "metrics_event",
              severity   |-> SeverityTrace(m)[5],
              reasons    |-> Reasons(m),
              metrics    |-> Some(m),
              log        |-> None]
    ELSE [timestamp  |-> now,
          source     |-> "aggregator",
          node_id    |-> data.node_id,
          event_type |-> "log_event",
          severity   |-> IF ContainsCritical(data.log[1]) THEN "CRITICAL" ELSE "ERROR",
          reasons    |-> <<>>,
          metrics    |-> None,
          log        |-> data.log]

\* index(): classify the decoded payload and publish the event.
Index(obj) ==
    /\ rawPayload' = Some(obj)
    /\ event' = IF ClassifyRaises(obj) THEN None ELSE Some(classify_event(obj))
    /\ sevTrace' = IF obj.metrics # None THEN SeverityTrace(obj.metrics[1]) ELSE <<>>
    /\ UNCHANGED <<now, scaleVars, memVars, monVars, cbVars, thrVars, nsVars>>

-----------------------------------------------------------------------------
(***************************************************************************)
(* config.py                                                               *)
(***************************************************************************)
MIN_REPLICAS                  == 2
MAX_REPLICAS                  == 8
COOLDOWN_SECONDS              == 60
CRITICAL_COOLDOWN_SECONDS     == 15   \* declared in config.py, read nowhere
OOM_SCALE_MULTIPLIER          == 20   \* 2, in tenths
NODE_FAILURE_SCALE_MULTIPLIER == 15   \* 1.5, in tenths

-----------------------------------------------------------------------------
(***************************************************************************)
(* metrics_window.py: MetricsWindow.  A sample is the record of the four   *)
(* values add() keeps (its timestamp is stored and never read).            *)
(***************************************************************************)
window_size == 5    \* MetricsWindow(window_size=5)

Sample(cpu, memory, latency, error_rate) ==
    [cpu |-> cpu, memory |-> memory, latency |-> latency, error_rate |-> error_rate]

\* The sample add() builds from an event's metrics dictionary.
SampleOf(metrics) ==
    Sample(MGet(metrics, "cpu"), MGet(metrics, "memory"),
           MGet(metrics, "net_latency_ms"), MGet(metrics, "error_rate"))

\* A bounded append that refuses the new sample once the window is full.
WindowAddKeepsOldest(data, sample) ==
    IF Len(data) >= window_size THEN data ELSE Append(data, sample)

\* deque(maxlen=window_size).append(sample)
WindowAdd(data, sample) ==
    IF Len(data) >= window_size THEN Append(Tail(data), sample) ELSE Append(data, sample)

RECURSIVE SumSeq(_)
SumSeq(values) == IF values = <<>> THEN 0 ELSE Head(values) + SumSeq(Tail(values))

RECURSIVE MaxSeq(_)
MaxSeq(values) ==
    IF Len(values) = 1 THEN Head(values) ELSE Max2(Head(values), MaxSeq(Tail(values)))

\* v inserted into the ascending sequence `sorted`.
RECURSIVE InsertSorted(_, _)
InsertSorted(sorted, v) ==
    IF sorted = <<>> THEN <<v>>
    ELSE IF v <= Head(sorted) THEN <<v>> \o sorted
    ELSE <<Head(sorted)>> \o InsertSorted(Tail(sorted), v)

\* sorted(values)
RECURSIVE Sorted(_)
Sorted(values) ==
    IF values = <<>> THEN <<>> ELSE InsertSorted(Sorted(Tail(values)), Head(values))

\* round(a / b) to the nearest integer, a tie going to the even one (a >= 0, b > 0).
RoundDiv(a, b) ==
    LET q == a \div b
        r == a % b
    IN  IF 2 * r < b THEN q
        ELSE IF 2 * r > b THEN q + 1
        ELSE IF q % 2 = 0 THEN q ELSE q + 1

\* A percentile whose rank is counted from the wrong end of the sorted values.
calculate_percentile_reversed(values, percentile) ==
    IF values = <<>> THEN 0
    ELSE Sorted(values)[Min2((Len(values) * (100 - percentile)) \div 10, Len(values) - 1) + 1]

\* _calculate_percentile(values, percentile)
calculate_percentile(values, percentile) ==
    IF values = <<>> THEN 0
    ELSE Sorted(values)[Min2((Len(values) * percentile) \div 100, Len(values) - 1) + 1]

\* A trend whose comparisons include the differences of exactly 20 and 10.
TrendInclusive(cpu_values) ==
    IF Len(cpu_values) >= 4
    THEN LET n      == Len(cpu_values)
             recent == cpu_values[n - 1] + cpu_values[n]
             older  == SumSeq(SubSeq(cpu_values, 1, n - 2))
             k      == n - 2
         IN  IF recent * k >= 2 * older + 2 * k * Centi(20) THEN "spiking"
             ELSE IF recent * k >= 2 * older + 2 * k * Centi(10) THEN "increasing"
             ELSE IF recent * k <= 2 * older - 2 * k * Centi(10) THEN "decreasing"
             ELSE "stable"
    ELSE "stable"

\* The trend label of get_stats over the cpu values: recent_avg is the mean of the
\* last two, older_avg the mean of the others; the comparisons are multiplied out.
Trend(cpu_values) ==
    IF Len(cpu_values) >= 4
    THEN LET n      == Len(cpu_values)
             recent == cpu_values[n - 1] + cpu_values[n]
             older  == SumSeq(SubSeq(cpu_values, 1, n - 2))
             k      == n - 2
         IN  IF recent * k > 2 * older + 2 * k * Centi(20) THEN "spiking"
             ELSE IF recent * k > 2 * older + 2 * k * Centi(10) THEN "increasing"
             ELSE IF recent * k < 2 * older - 2 * k * Centi(10) THEN "decreasing"
             ELSE "stable"
    ELSE "stable"

Column(data, field) == [i \in 1..Len(data) |-> data[i][field]]

\* get_stats()
get_stats(data) ==
    IF data = <<>>
    THEN [count |-> 0]
    ELSE LET cpu_values     == Column(data, "cpu")
             mem_values     == Column(data, "memory")
             latency_values == Column(data, "latency")
             error_values   == Column(data, "error_rate")
         IN  [avg_cpu        |-> RoundDiv(SumSeq(cpu_values), Len(data)),
              avg_memory     |-> RoundDiv(SumSeq(mem_values), Len(data)),
              max_cpu        |-> MaxSeq(cpu_values),
              latency_p90    |-> calculate_percentile(latency_values, 90),
              latency_p95    |-> calculate_percentile(latency_values, 95),
              latency_p99    |-> calculate_percentile(latency_values, 99),
              avg_error_rate |-> RoundDiv(SumSeq(error_values), Len(data)),
              trend          |-> Trend(cpu_values),
              spike_detected |-> Trend(cpu_values) = "spiking",
              count          |-> Len(data)]

-----------------------------------------------------------------------------
(***************************************************************************)
(* autoscaler.py: calculate_composite_score.  With all values in           *)
(* hundredths, cpu*0.4 + latency*0.35 + errors*0.25 is                     *)
(* (40*cpu + 7*min(p95, 500) + 250*min(avg_error_rate, 10)) / 100.         *)
(***************************************************************************)
COMPOSITE_SCALE_UP          == 70
COMPOSITE_SCALE_DOWN        == 30
LATENCY_P95_THRESHOLD       == 500
LATENCY_P99_THRESHOLD       == 1000
MAX_CRASHLOOP_COUNT         == 3
BACKLOG_SIZE_HIGH           == 1000
OLDEST_MESSAGE_AGE_HIGH     == 60

calculate_composite_score(stats) ==
    LET cpu     == Min2(stats.avg_cpu, Centi(100))
        latency == Min2(stats.latency_p95, Centi(LATENCY_P95_THRESHOLD))
        errors  == Min2(stats.avg_error_rate, Centi(10))
    IN  RoundDiv(40 * cpu + 7 * latency + 250 * errors, 100)

-----------------------------------------------------------------------------
(***************************************************************************)
(* autoscaler.py: execute_scale.                                           *)
(***************************************************************************)
Actions     == {"up", "down"}
Multipliers == {10, NODE_FAILURE_SCALE_MULTIPLIER, OOM_SCALE_MULTIPLIER}

\* The outcome of the two cluster-API calls of execute_scale: both succeed, the read
\* raises, or the patch raises.
ApiOutcomes == {"ok", "read_fails", "patch_fails"}

\* A cooldown check that applies the 15 s of CRITICAL_COOLDOWN_SECONDS to every
\* non-bypassing call instead of COOLDOWN_SECONDS.
CooldownRejectsShort(bypass_cooldown, lst, t) ==
    /\ lst # None
    /\ ~bypass_cooldown
    /\ t - lst[1] < CRITICAL_COOLDOWN_SECONDS

\* A cooldown check that takes no notice of bypass_cooldown.
CooldownRejectsDespiteBypass(bypass_cooldown, lst, t) ==
    /\ lst # None
    /\ t - lst[1] < COOLDOWN_SECONDS

\* if last_scale_time and not bypass_cooldown: elapsed < COOLDOWN_SECONDS
CooldownRejects(bypass_cooldown, lst, t) ==
    /\ lst # None
    /\ ~bypass_cooldown
    /\ t - lst[1] < COOLDOWN_SECONDS

\* current = dep.spec.replicas or MIN_REPLICAS
CurrentReplicas(r) == IF r = 0 THEN MIN_REPLICAS ELSE r

\* An increment that rounds current * (multiplier - 1) up.
IncrementRoundingUp(current, multiplier) ==
    IF multiplier > 10
    THEN Max2(1, (current * (multiplier - 10) + 9) \div 10)
    ELSE 1

\* inc = max(1, int(current * (multiplier - 1))) if multiplier > 1 else 1
Increment(current, multiplier) ==
    IF multiplier > 10
    THEN Max2(1, (current * (multiplier - 10)) \div 10)
    ELSE 1

\* new = min(current + inc, MAX_REPLICAS) on up, max(current - 1, MIN_REPLICAS) otherwise
NewReplicas(action, current, multiplier) ==
    IF action = "up"
    THEN Min2(current + Increment(current, multiplier), MAX_REPLICAS)
    ELSE Max2(current - 1, MIN_REPLICAS)

\* An execute_scale that stamps last_scale_time before the patch, so that a rejected
\* patch starts a cooldown all the same.
ExecuteScaleOutcomeStampsFirst(action, bypass_cooldown, multiplier, api, r, lst, t) ==
    LET current == CurrentReplicas(r)
        new     == NewReplicas(action, current, multiplier)
        tried   == /\ ~CooldownRejects(bypass_cooldown, lst, t)
                   /\ api # "read_fails"
                   /\ new # current
        patched == tried /\ api = "ok"
    IN  [ret             |-> patched,
         patched         |-> patched,
         current         |-> current,
         new             |-> new,
         replicas        |-> IF patched THEN new ELSE r,
         last_scale_time |-> IF tried THEN Some(t) ELSE lst]

\* What one execute_scale call returns and writes, run from the state (r, lst) at
\* time t with the cluster API behaving as `api`.
ExecuteScaleOutcome(action, bypass_cooldown, multiplier, api, r, lst, t) ==
    LET current == CurrentReplicas(r)
        new     == NewReplicas(action, current, multiplier)
        patched == /\ ~CooldownRejects(bypass_cooldown, lst, t)
                   /\ api = "ok"
                   /\ new # current
    IN  [ret             |-> patched,
         patched         |-> patched,
         current         |-> current,
         new             |-> new,
         replicas        |-> IF patched THEN new ELSE r,
         last_scale_time |-> IF patched THEN Some(t) ELSE lst]

\* The record kept of a call: arguments, the state before, the outcome.
CallRecord(action, bypass_cooldown, multiplier, api, out) ==
    [called          |-> TRUE,
     action          |-> action,
     bypass_cooldown |-> bypass_cooldown,
     multiplier      |-> multiplier,
     api             |-> api,
     at              |-> now,
     replicasBefore  |-> replicas,
     lastBefore      |-> last_scale_time,
     prevSuccess     |-> lastSuccess,
     ret             |-> out.ret,
     patched         |-> out.patched,
     written         |-> out.new]

NoCall ==
    [called |-> FALSE, action |-> "up", bypass_cooldown |-> FALSE, multiplier |-> 10,
     api |-> "ok", at |-> 0, replicasBefore |-> 0, lastBefore |-> None,
     prevSuccess |-> None, ret |-> FALSE, patched |-> FALSE, written |-> 0]

\* One whole execute_scale call.
ExecuteScale(action, bypass_cooldown, multiplier, api) ==
    LET out == ExecuteScaleOutcome(action, bypass_cooldown, multiplier, api,
                                   replicas, last_scale_time, now)
    IN  /\ replicas' = out.replicas
        /\ last_scale_time' = out.last_scale_time
        /\ lastSuccess' = IF out.patched
                          THEN Some([at |-> now, bypass_cooldown |-> bypass_cooldown])
                          ELSE lastSuccess
        /\ scaleLog' = CallRecord(action, bypass_cooldown, multiplier, api, out)
        /\ UNCHANGED <<now, aggVars, memVars, monVars, cbVars, thrVars, nsVars>>

\* Somebody else (an operator, another controller) sets the replica count.
ExternalScale(r) ==
    /\ r # replicas
    /\ replicas' = r
    /\ scaleLog' = NoCall
    /\ UNCHANGED <<now, aggVars, memVars, monVars, cbVars, thrVars, nsVars, last_scale_time, lastSuccess>>

-----------------------------------------------------------------------------
(***************************************************************************)
(* memory_optimizer.py: MemoryOptimizer.                                   *)
(*                                                                         *)
(* A memory quantity string is the record of its number and its suffix.    *)
(* Byte counts are held in blocks of 512 bytes, so that 2Gi, and one and a *)
(* half times any whole number of Ki, are exact and within TLC's integers; *)
(* the strings of the model all denote whole numbers of Ki.                *)
(***************************************************************************)
Ki == 2          \* 1024 bytes, in blocks
Mi == 2048       \* 1024 * 1024 bytes, in blocks
Gi == 2097152    \* 1024 * 1024 * 1024 bytes, in blocks

MemStr(num, suffix) == [num |-> num, suffix |-> suffix]

min_memory       == MemStr(128, "Mi")     \* self.min_memory, read nowhere
max_memory       == MemStr(2, "Gi")       \* self.max_memory
cooldown_seconds == 300                   \* self.cooldown_seconds
oom_threshold    == 2                     \* self.oom_threshold
OomResetSeconds  == 3600                  \* record_oom_event: > 3600 restarts the count

Pods == {"workload-a", "workload-b"}

\* The memory limits a workload manifest may carry: unset, below min_memory, between
\* the bounds, at and above max_memory, in bytes without suffix, and with a decimal
\* suffix that parse_memory does not know.
MemLimits ==
    {None} \cup
    {Some(x) : x \in {MemStr(100, "Ki"), MemStr(64, "Mi"), MemStr(128, "Mi"),
                      MemStr(256, "Mi"), MemStr(268435456, ""), MemStr(1, "Gi"),
                      MemStr(1536, "Mi"), MemStr(2, "Gi"), MemStr(3, "Gi"),
                      MemStr(512, "M")}}

\* int(memory_str) raises ValueError for a string that still carries a suffix.
ParseRaises(memory_str) == memory_str.suffix \notin {"Gi", "Mi", "Ki", ""}

\* parse_memory(memory_str), for a string on which it does not raise.
parse_memory(memory_str) ==
    CASE memory_str.suffix = "Gi" -> memory_str.num * Gi
      [] memory_str.suffix = "Mi" -> memory_str.num * Mi
      [] memory_str.suffix = "Ki" -> memory_str.num * Ki
      [] OTHER                    -> memory_str.num \div 512

\* format_memory(bytes_value)
format_memory(bytes_value) ==
    IF bytes_value >= Gi THEN MemStr(bytes_value \div Gi, "Gi")
    ELSE IF bytes_value >= Mi THEN MemStr(bytes_value \div Mi, "Mi")
    ELSE MemStr(bytes_value \div Ki, "Ki")

\* int(current_bytes * self.increment_factor), increment_factor = 1.5
Incremented(current_bytes) == (current_bytes * 15) \div 10

\* record_oom_event(pod_name): the new entry of oom_history.
OomEntry(hist, pod_name, t) ==
    IF hist[pod_name] = None THEN [count |-> 1, last_seen |-> t]
    ELSE IF t - hist[pod_name][1].last_seen > OomResetSeconds
         THEN [count |-> 1, last_seen |-> t]
    ELSE [count |-> hist[pod_name][1].count + 1, last_seen |-> t]

\* A record_oom_event that returns true only above the threshold.
OomReturnsAboveThreshold(entry) == entry.count > oom_threshold

\* record_oom_event returns count >= self.oom_threshold
OomReturns(entry) == entry.count >= oom_threshold

\* A should_adjust_memory whose cooldown ends one second early.
should_adjust_memory_early(hist, t) ==
    IF hist = None THEN TRUE
    ELSE ~(t - hist[1].last_adjustment < cooldown_seconds - 1)

\* should_adjust_memory(deployment_name, namespace)
should_adjust_memory(hist, t) ==
    IF hist = None THEN TRUE
    ELSE ~(t - hist[1].last_adjustment < cooldown_seconds)

\* An adjust_memory_limits without the early return at the cap: it patches the cap
\* again and records the adjustment.
AdjustOutcomePatchingAtCap(api, limit, t) ==
    LET current_limit == IF limit = None THEN MemStr(256, "Mi") ELSE limit[1]
        raises        == api = "read_fails" \/ ParseRaises(current_limit)
        current_bytes == parse_memory(current_limit)
        max_bytes     == parse_memory(max_memory)
        new_bytes     == IF Incremented(current_bytes) > max_bytes
                         THEN max_bytes ELSE Incremented(current_bytes)
        new_limit     == format_memory(new_bytes)
        at_max        == current_bytes >= max_bytes
        patched       == ~raises /\ api = "ok"
    IN  [ok        |-> patched,
         old       |-> IF raises \/ (~at_max /\ ~patched) THEN None ELSE Some(current_limit),
         new       |-> IF raises \/ (~at_max /\ ~patched) THEN None
                       ELSE IF at_max THEN Some(current_limit) ELSE Some(new_limit),
         patched   |-> patched,
         read      |-> limit,
         at        |-> t,
         api       |-> api]

\* What one adjust_memory_limits call returns and writes, run on the limit `limit`
\* at time t with the cluster API behaving as `api`.
AdjustOutcome(api, limit, t) ==
    LET current_limit == IF limit = None THEN MemStr(256, "Mi") ELSE limit[1]
        raises        == api = "read_fails" \/ ParseRaises(current_limit)
        current_bytes == parse_memory(current_limit)
        max_bytes     == parse_memory(max_memory)
        new_bytes     == IF Incremented(current_bytes) > max_bytes
                         THEN max_bytes ELSE Incremented(current_bytes)
        new_limit     == format_memory(new_bytes)
        at_max        == current_bytes >= max_bytes
        patched       == ~raises /\ ~at_max /\ api = "ok"
    IN  [ok        |-> patched,
         old       |-> IF raises \/ (~at_max /\ ~patched) THEN None ELSE Some(current_limit),
         new       |-> IF raises \/ (~at_max /\ ~patched) THEN None
                       ELSE IF at_max THEN Some(current_limit) ELSE Some(new_limit),
         patched   |-> patched,
         read      |-> limit,
         at        |-> t,
         api       |-> api]

NoMemCall ==
    [ok |-> FALSE, old |-> None, new |-> None, patched |-> FALSE, read |-> None, at |-> 0,
     api |-> "ok"]

\* One whole adjust_memory_limits call.
AdjustMemoryLimits(api) ==
    LET out == AdjustOutcome(api, memLimit, now)
    IN  /\ memLimit' = IF out.patched THEN out.new ELSE memLimit
        /\ memRequest' = IF out.patched THEN out.new ELSE memRequest
        /\ adjustment_history' =
              IF out.patched
              THEN Some([last_adjustment |-> now, current_limit |-> out.new[1]])
              ELSE adjustment_history
        /\ memLog' = out @@ [op |-> "adjust"]
        /\ UNCHANGED <<now, aggVars, scaleVars, monVars, cbVars, thrVars, nsVars, oom_history>>

\* One whole record_oom_event call.
RecordOomEvent(pod_name) ==
    LET entry == OomEntry(oom_history, pod_name, now)
    IN  /\ entry.count <= MaxOomCount
        /\ oom_history' = [oom_history EXCEPT ![pod_name] = Some(entry)]
        /\ memLog' = [NoMemCall EXCEPT !.ok = OomReturns(entry), !.at = now]
                        @@ [op |-> "record_oom"]
        /\ UNCHANGED <<now, aggVars, scaleVars, monVars, cbVars, thrVars, nsVars, memLimit, memRequest, adjustment_history>>

-----------------------------------------------------------------------------
(***************************************************************************)
(* node_monitor.py: NodeMonitor.                                           *)
(***************************************************************************)
Nodes == {"n1", "n2"}

quarantine_threshold == 300    \* self.quarantine_threshold

\* A node as the cluster API shows it: the status of its Ready condition,
\* spec.unschedulable, and whether it carries the taint node-scaler.pulse/draining.
NodeView(ready, unschedulable, draining) ==
    [ready |-> ready, unschedulable |-> unschedulable, draining |-> draining]

\* A node_healthy that takes no notice of the draining taint.
NodeHealthyIgnoringTaint(node) ==
    IF ~node.ready THEN FALSE
    ELSE IF node.unschedulable THEN FALSE
    ELSE TRUE

\* node_healthy, as check_node_health computes it for one node.
NodeHealthy(node) ==
    IF node.draining THEN TRUE
    ELSE IF ~node.ready THEN FALSE
    ELSE IF node.unschedulable THEN FALSE
    ELSE TRUE

\* The entry of unhealthy_nodes for node n after the first half of the loop body.
UnhealthyAfter(n, node, unhealthy, t) ==
    IF NodeHealthy(node) THEN None
    ELSE IF unhealthy[n] = None THEN Some(t) ELSE unhealthy[n]

\* Whether the loop body calls _unquarantine_node for node n.
Unquarantines(n, node, quarantined) ==
    NodeHealthy(node) /\ n \in quarantined

\* Whether the loop body calls _quarantine_node for node n.
Quarantines(n, node, unhealthy, quarantined, t) ==
    /\ ~node.ready
    /\ UnhealthyAfter(n, node, unhealthy, t) # None
    /\ t - UnhealthyAfter(n, node, unhealthy, t)[1] > quarantine_threshold
    /\ n \notin quarantined

\* What one check_node_health call returns and writes.  listed: the nodes list_node
\* returned (None if it raised); patchFails: the nodes whose patch_node raises.
CheckOutcome(listed, patchFails, view, unhealthy, quarantined, t) ==
    IF listed = None
    THEN [result      |-> [not_ready_nodes |-> {}, quarantined_nodes |-> {},
                           total_nodes |-> 0, healthy_nodes |-> 0],
          unhealthy   |-> unhealthy,
          quarantined |-> quarantined,
          view        |-> view]
    ELSE LET ns    == listed[1]
             unq   == {n \in ns : Unquarantines(n, view[n], quarantined)
                                   /\ n \notin patchFails}
             qua   == {n \in ns : Quarantines(n, view[n], unhealthy, quarantined, t)
                                   /\ n \notin patchFails}
             newQ  == (quarantined \ unq) \cup qua
         IN  [result      |-> [not_ready_nodes   |-> {n \in ns : ~NodeHealthy(view[n])},
                               quarantined_nodes |-> newQ,
                               total_nodes       |-> Cardinality(ns),
                               healthy_nodes     |-> Cardinality({n \in ns : NodeHealthy(view[n])})],
              unhealthy   |-> [n \in Nodes |->
                                  IF n \in ns THEN UnhealthyAfter(n, view[n], unhealthy, t)
                                  ELSE unhealthy[n]],
              quarantined |-> newQ,
              view        |-> [n \in Nodes |->
                                  IF n \in unq THEN [view[n] EXCEPT !.unschedulable = FALSE]
                                  ELSE IF n \in qua THEN [view[n] EXCEPT !.unschedulable = TRUE]
                                  ELSE view[n]]]

\* get_node_capacity_loss(): len(self.unhealthy_nodes) / total_nodes as the fraction
\* num/den, 0 (0/1) when the cluster has no nodes or list_node raises.
CapacityLoss(listed, unhealthy) ==
    IF listed = None \/ listed = Some({}) THEN [num |-> 0, den |-> 1]
    ELSE [num |-> Cardinality({n \in Nodes : unhealthy[n] # None}),
          den |-> Cardinality(listed[1])]

NoMonCall ==
    [called |-> FALSE, listed |-> None, patchFails |-> {}, seen |-> [n \in Nodes |-> NodeView(TRUE, FALSE, FALSE)],
     quarantinedBefore |-> {}, unhealthyBefore |-> [n \in Nodes |-> None],
     result |-> [not_ready_nodes |-> {}, quarantined_nodes |-> {},
                 total_nodes |-> 0, healthy_nodes |-> 0],
     loss |-> None]

\* The record kept of a check_node_health call: what it was given, the state before,
\* what it returned; loss is what a get_node_capacity_loss that followed returned.
MonCallRecord(listed, patchFails, out) ==
    [called |-> TRUE, listed |-> listed, patchFails |-> patchFails,
     seen |-> nodes, quarantinedBefore |-> quarantined_nodes,
     unhealthyBefore |-> unhealthy_nodes, result |-> out.result, loss |-> None]

\* One whole check_node_health call.
CheckNodeHealth(listOk, patchFails) ==
    LET listed == IF listOk THEN Some(clusterNodes) ELSE None
        out    == CheckOutcome(listed, patchFails, nodes, unhealthy_nodes,
                               quarantined_nodes, now)
    IN  /\ unhealthy_nodes' = out.unhealthy
        /\ quarantined_nodes' = out.quarantined
        /\ nodes' = out.view
        /\ monLog' = MonCallRecord(listed, patchFails, out)
        /\ UNCHANGED <<now, aggVars, scaleVars, memVars, cbVars, thrVars, nsVars, clusterNodes>>

\* The cluster: a node's Ready condition changes.
NodeReadyChanges(n) ==
    /\ n \in clusterNodes
    /\ nodes' = [nodes EXCEPT ![n].ready = ~nodes[n].ready]
    /\ monLog' = NoMonCall
    /\ UNCHANGED <<now, aggVars, scaleVars, memVars, cbVars, thrVars, nsVars, clusterNodes,
                   unhealthy_nodes, quarantined_nodes>>

\* An operator cordons or uncordons a node (kubectl cordon / uncordon).
OperatorCordons(n) ==
    /\ n \in clusterNodes
    /\ nodes' = [nodes EXCEPT ![n].unschedulable = ~nodes[n].unschedulable]
    /\ monLog' = NoMonCall
    /\ UNCHANGED <<now, aggVars, scaleVars, memVars, cbVars, thrVars, nsVars, clusterNodes,
                   unhealthy_nodes, quarantined_nodes>>

-----------------------------------------------------------------------------
(***************************************************************************)
(* autoscaler.py: check_pod_health.  A pod is seen with one container,     *)
(* whose status is one of:                                                 *)
(*   running        state.running, no last termination                     *)
(*   oom_running    state.running, last_state.terminated.reason OOMKilled  *)
(*   crashloop      state.waiting.reason CrashLoopBackOff                  *)
(*   crashloop_oom  CrashLoopBackOff, last termination OOMKilled           *)
(*   pending        waiting for another reason                             *)
(***************************************************************************)
PodStatuses == {"running", "oom_running", "crashloop", "crashloop_oom", "pending"}

IsCrashLoop(st) == st \in {"crashloop", "crashloop_oom"}
IsOomKilled(st) == st \in {"oom_running", "crashloop_oom"}
IsRunning(st)   == st \in {"running", "oom_running"}

\* The state check_pod_health reads and writes.
PodState(crash, oomh, adjh, limit) ==
    [crash |-> crash, oomh |-> oomh, adjh |-> adjh, limit |-> limit]

\* The OOM branch of the loop body: record_oom_event, should_adjust_memory and
\* adjust_memory_limits; adjust is the call made, if one was made.
OomBranch(name, st, memApi, t) ==
    LET entry  == OomEntry(st.oomh, name, t)
        oomh2  == [st.oomh EXCEPT ![name] = Some(entry)]
        adjust == OomReturns(entry) /\ should_adjust_memory(st.adjh, t)
        out    == AdjustOutcome(memApi, st.limit, t)
    IN  [health |-> "oom",
         state  |-> IF adjust /\ out.patched
                    THEN PodState(st.crash, oomh2,
                                  Some([last_adjustment |-> t, current_limit |-> out.new[1]]),
                                  out.new)
                    ELSE PodState(st.crash, oomh2, st.adjh, st.limit),
         adjust |-> IF adjust THEN Some(out) ELSE None]

\* The loop of check_pod_health over the listed pods, from the first one on.
RECURSIVE ScanPods(_, _, _, _)
ScanPods(pods, st, memApi, t) ==
    IF pods = <<>>
    THEN [health |-> "healthy", state |-> st, adjust |-> None]
    ELSE LET name   == Head(pods).name
             status == Head(pods).status
             crash2 == IF IsCrashLoop(status)
                       THEN [st.crash EXCEPT ![name] = @ + 1] ELSE st.crash
             st2    == [st EXCEPT !.crash = crash2]
         IN  IF IsCrashLoop(status) /\ crash2[name] >= MAX_CRASHLOOP_COUNT
             THEN [health |-> "unhealthy", state |-> st2, adjust |-> None]
             ELSE IF IsOomKilled(status)
             THEN OomBranch(name, st2, memApi, t)
             ELSE IF IsRunning(status)
             THEN ScanPods(Tail(pods), [st2 EXCEPT !.crash[name] = 0], memApi, t)
             ELSE ScanPods(Tail(pods), st2, memApi, t)

\* check_pod_health(): pods is the list the cluster API returned, None if it raised.
check_pod_health(pods, st, memApi, t) ==
    IF pods = None
    THEN [health |-> "unknown", state |-> st, adjust |-> None]
    ELSE ScanPods(pods[1], st, memApi, t)

-----------------------------------------------------------------------------
(***************************************************************************)
(* pubsub_monitor.py: get_backlog_stats.  An observation gives, for each   *)
(* of the two metrics, the first point's value, or None when the query     *)
(* raised or found no series.                                              *)
(***************************************************************************)
\* A probe that reports a failed query as a value above the thresholds.
get_backlog_stats_failing_high(obs) ==
    [backlog_size       |-> IF obs.size = None THEN BACKLOG_SIZE_HIGH + 1 ELSE obs.size[1],
     oldest_message_age |-> IF obs.age = None THEN OLDEST_MESSAGE_AGE_HIGH + 1
                            ELSE obs.age[1]]

get_backlog_stats(obs) ==
    [backlog_size       |-> IF obs.size = None THEN 0 ELSE obs.size[1],
     oldest_message_age |-> IF obs.age = None THEN 0 ELSE obs.age[1]]

-----------------------------------------------------------------------------
(***************************************************************************)
(* autoscaler.py: should_scale and callback.                               *)
(*                                                                         *)
(* env gathers what the cluster and the cloud answer during one call:      *)
(*   pods        the listed pods with their statuses, None if the list     *)
(*               raised                                                    *)
(*   memApi      the outcome of adjust_memory_limits' API calls            *)
(*   listOk      whether check_node_health's list_node succeeds            *)
(*   patchFails  the nodes whose patch_node raises                         *)
(*   lossListOk  whether get_node_capacity_loss's list_node succeeds       *)
(*   backlog     the backlog observation                                   *)
(*   scaleApi    the outcome of execute_scale's API calls                  *)
(***************************************************************************)
Decision(action, reason) == [action |-> action, reason |-> reason]

\* The composite rule with the scale-up threshold included (composite >= 70).
CompositeDecisionInclusive(stats) ==
    LET composite == calculate_composite_score(stats)
        violate   == \/ stats.latency_p95 > Centi(LATENCY_P95_THRESHOLD)
                     \/ stats.latency_p99 > Centi(LATENCY_P99_THRESHOLD)
    IN  IF composite >= Centi(COMPOSITE_SCALE_UP) \/ violate \/ stats.spike_detected
        THEN Decision(Some("up"), "High load")
        ELSE IF composite < Centi(COMPOSITE_SCALE_DOWN)
                /\ stats.trend \notin {"increasing", "spiking"}
        THEN Decision(Some("down"), "Low load")
        ELSE Decision(None, "Normal")

\* Rule 6 of should_scale: the composite score, the latency thresholds, the trend.
CompositeDecision(stats) ==
    LET composite == calculate_composite_score(stats)
        violate   == \/ stats.latency_p95 > Centi(LATENCY_P95_THRESHOLD)
                     \/ stats.latency_p99 > Centi(LATENCY_P99_THRESHOLD)
    IN  IF composite > Centi(COMPOSITE_SCALE_UP) \/ violate \/ stats.spike_detected
        THEN Decision(Some("up"), "High load")
        ELSE IF composite < Centi(COMPOSITE_SCALE_DOWN)
                /\ stats.trend \notin {"increasing", "spiking"}
        THEN Decision(Some("down"), "Low load")
        ELSE Decision(None, "Normal")

\* loss > NODE_CAPACITY_LOSS_THRESHOLD, the threshold being 0.25
LossAboveThreshold(loss) == 4 * loss.num > loss.den

\* The node-health rule of should_scale, after check_node_health returned nh:
\* a decision, or None when the rule does not fire.
NodeRule(nh, loss) ==
    IF nh.not_ready_nodes # {}
    THEN IF nh.healthy_nodes = 0 THEN Some(Decision(None, "No healthy nodes"))
         ELSE IF LossAboveThreshold(loss) THEN Some(Decision(Some("up"), "Node failure"))
         ELSE None
    ELSE None

\* The backlog rule firing at its thresholds too (>= 1000, >= 60).
BacklogRuleInclusive(b) ==
    IF b.backlog_size >= BACKLOG_SIZE_HIGH THEN Some(Decision(Some("up"), "Backlog high"))
    ELSE IF b.oldest_message_age >= OLDEST_MESSAGE_AGE_HIGH
    THEN Some(Decision(Some("up"), "Message age high"))
    ELSE None

\* The backlog rule of should_scale: a decision, or None when it does not fire.
BacklogRule(b) ==
    IF b.backlog_size > BACKLOG_SIZE_HIGH THEN Some(Decision(Some("up"), "Backlog high"))
    ELSE IF b.oldest_message_age > OLDEST_MESSAGE_AGE_HIGH
    THEN Some(Decision(Some("up"), "Message age high"))
    ELSE None

\* should_scale(stats, critical): its decision, the state its pod-health check leaves,
\* and the node monitor's state after its check_node_health (None: not called).
should_scale(stats, critical, env, st, view, unhealthy, quarantined, t) ==
    IF stats.count < 3
    THEN [decision |-> Decision(None, "Not enough data"),
          pod |-> [health |-> "none", state |-> st, adjust |-> None], mon |-> None]
    ELSE
    LET pod == check_pod_health(env.pods, st, env.memApi, t)
    IN  IF pod.health = "unhealthy"
        THEN [decision |-> Decision(None, "Pods unhealthy"), pod |-> pod, mon |-> None]
        ELSE IF pod.health = "oom"
        THEN [decision |-> Decision(Some("up"), "OOM detected"), pod |-> pod, mon |-> None]
        ELSE
        LET listed == IF env.listOk THEN Some(clusterNodes) ELSE None
            mon    == CheckOutcome(listed, env.patchFails, view, unhealthy, quarantined, t)
            loss   == CapacityLoss(IF env.lossListOk THEN Some(clusterNodes) ELSE None,
                                   mon.unhealthy)
            byNode == NodeRule(mon.result, loss)
            byLog  == BacklogRule(get_backlog_stats(env.backlog))
            monOut == Some([out |-> mon, listed |-> listed])
        IN  IF byNode # None
            THEN [decision |-> byNode[1], pod |-> pod, mon |-> monOut]
            ELSE IF byLog # None
            THEN [decision |-> byLog[1], pod |-> pod, mon |-> monOut]
            ELSE IF critical
            THEN [decision |-> Decision(Some("up"), "Critical event"), pod |-> pod,
                  mon |-> monOut]
            ELSE [decision |-> CompositeDecision(stats), pod |-> pod, mon |-> monOut]

\* The record kept of a direct should_scale call: its arguments, what its probes
\* answered (the pod health, the node health result and the capacity loss, the
\* backlog stats; each as far as the call got) and what it returned.
SsRecord(stats, critical, health, nh, loss, backlog, decision) ==
    [called |-> TRUE, stats |-> stats, critical |-> critical, health |-> health,
     nh |-> nh, loss |-> loss, backlog |-> backlog, decision |-> decision]

NoShouldScale ==
    [called |-> FALSE, stats |-> [count |-> 0], critical |-> FALSE, health |-> "none",
     nh |-> None, loss |-> None, backlog |-> None, decision |-> Decision(None, "none")]

\* mul = OOM_SCALE_MULTIPLIER if "OOM" in reason else
\*       NODE_FAILURE_SCALE_MULTIPLIER if "Node failure" in reason else 1
MultiplierFor(reason) ==
    IF reason = "OOM detected" THEN OOM_SCALE_MULTIPLIER
    ELSE IF reason = "Node failure" THEN NODE_FAILURE_SCALE_MULTIPLIER
    ELSE 10

\* A message of the subscription: undecodable bytes, or a JSON event with its
\* severity and its metrics (None when the event has none).
Undecodable == [decodes |-> FALSE, severity |-> "INFO", metrics |-> None]
EventMsg(severity, metrics) == [decodes |-> TRUE, severity |-> severity, metrics |-> metrics]

\* The value of "metrics" in an event that carries JSON null there: it is not a
\* dictionary, and no dictionary of metrics equals it.
JsonNull == [json_null |-> 0]

NoCallback ==
    [called |-> FALSE, msg |-> Undecodable, path |-> "none",
     decision |-> Decision(None, "none"), health |-> "none", scaled |-> FALSE,
     bypass_cooldown |-> FALSE, acks |-> 0, at |-> 0, replicasBefore |-> 0,
     replicasAfter |-> 0, backlog |-> None]

\* The paths through callback's try block that end in its except handler: json.loads
\* raises, or m.get raises on metrics that are not a dictionary.
PathRaises(path) == path \in {"undecodable", "raised"}

\* A callback that acknowledges in its try block only, an exception leaving the
\* message unacknowledged.
AckCallsNoHandler(path) == IF PathRaises(path) THEN 0 ELSE 1

\* The msg.ack() calls made along a path: the one the try block reaches before its
\* return or at its end, when nothing raised before it, and the one of the handler.
AckCalls(path) ==
    (IF PathRaises(path) THEN 0 ELSE 1) + (IF PathRaises(path) THEN 1 ELSE 0)

\* The record of one callback; backlog is the observation get_backlog_stats made,
\* None when should_scale did not ask for it.
CbRecord(msg, path, decision, health, backlog, scaled, bypass, replicasAfter) ==
    [called |-> TRUE, msg |-> msg, path |-> path, decision |-> decision,
     health |-> health, scaled |-> scaled, bypass_cooldown |-> bypass,
     acks |-> AckCalls(path), at |-> now, replicasBefore |-> replicas,
     replicasAfter |-> replicasAfter, backlog |-> backlog]

\* The bypass_cooldown argument of the execute_scale call the callback makes for a
\* decision of should_scale: none is passed, so the default False.
DecisionBypasses(reason) == FALSE

\* The execute_scale call of a message that is handled without should_scale.
CallbackShort(msg, path, scaleApi) ==
    /\ IF path = "critical"
       THEN LET out == ExecuteScaleOutcome("up", TRUE, 10, scaleApi,
                                           replicas, last_scale_time, now)
            IN  /\ replicas' = out.replicas
                /\ last_scale_time' = out.last_scale_time
                /\ lastSuccess' = IF out.patched
                                  THEN Some([at |-> now, bypass_cooldown |-> TRUE])
                                  ELSE lastSuccess
                /\ scaleLog' = CallRecord("up", TRUE, 10, scaleApi, out)
       ELSE /\ scaleLog' = NoCall
            /\ UNCHANGED <<replicas, last_scale_time, lastSuccess>>
    /\ cbLog' = CbRecord(msg, path, Decision(None, "none"), "none", None,
                          path = "critical", path = "critical", replicas')
    /\ UNCHANGED <<memVars, monVars, metrics_window, crash_loop_pods, added, ssLog>>

\* What the callback writes for an event with metrics, the window after add() being
\* data and should_scale having returned d: the states should_scale left, then
\* execute_scale when an action was decided.
CallbackApply(msg, env, data, d) ==
    LET action == d.decision.action
        reason == d.decision.reason
        bypass == DecisionBypasses(reason)
        out    == ExecuteScaleOutcome(action[1], bypass, MultiplierFor(reason),
                                      env.scaleApi, replicas, last_scale_time, now)
    IN  /\ metrics_window' = data
        /\ crash_loop_pods' = d.pod.state.crash
        /\ oom_history' = d.pod.state.oomh
        /\ adjustment_history' = d.pod.state.adjh
        /\ memLimit' = d.pod.state.limit
        /\ memRequest' = IF d.pod.state.limit # memLimit THEN d.pod.state.limit
                         ELSE memRequest
        /\ memLog' = IF d.pod.adjust = None THEN NoMemCall @@ [op |-> "none"]
                     ELSE d.pod.adjust[1] @@ [op |-> "adjust"]
        /\ IF d.mon = None
           THEN /\ monLog' = NoMonCall
                /\ UNCHANGED <<nodes, unhealthy_nodes, quarantined_nodes>>
           ELSE /\ unhealthy_nodes' = d.mon[1].out.unhealthy
                /\ quarantined_nodes' = d.mon[1].out.quarantined
                /\ nodes' = d.mon[1].out.view
                /\ monLog' = MonCallRecord(d.mon[1].listed, env.patchFails, d.mon[1].out)
        /\ IF action # None
           THEN /\ replicas' = out.replicas
                /\ last_scale_time' = out.last_scale_time
                /\ lastSuccess' = IF out.patched
                                  THEN Some([at |-> now, bypass_cooldown |-> bypass])
                                  ELSE lastSuccess
                /\ scaleLog' = CallRecord(action[1], bypass, MultiplierFor(reason),
                                          env.scaleApi, out)
           ELSE /\ scaleLog' = NoCall
                /\ UNCHANGED <<replicas, last_scale_time, lastSuccess>>
        /\ cbLog' = CbRecord(msg, "metrics", d.decision, d.pod.health,
                              IF d.mon # None
                                 /\ reason \notin {"No healthy nodes", "Node failure"}
                              THEN Some(env.backlog) ELSE None,
                              action # None, bypass, replicas')
        /\ UNCHANGED <<clusterNodes, added, ssLog>>

\* The rest of the callback for an event with metrics: window, stats, decision,
\* execute_scale.
CallbackMetrics(msg, env) ==
    \E data \in {WindowAdd(metrics_window, SampleOf(msg.metrics[1]))} :
        \E d \in {should_scale(get_stats(data), FALSE, env,
                                PodState(crash_loop_pods, oom_history,
                                         adjustment_history, memLimit),
                                nodes, unhealthy_nodes, quarantined_nodes, now)} :
            CallbackApply(msg, env, data, d)

\* One whole callback(msg).
Callback(msg, env) ==
    /\ IF ~msg.decodes THEN CallbackShort(msg, "undecodable", env.scaleApi)
       ELSE IF msg.severity = "CRITICAL" THEN CallbackShort(msg, "critical", env.scaleApi)
       ELSE IF msg.metrics = None THEN CallbackShort(msg, "no_metrics", env.scaleApi)
       ELSE IF msg.metrics = Some(JsonNull) THEN CallbackShort(msg, "raised", env.scaleApi)
       ELSE CallbackMetrics(msg, env)
    /\ UNCHANGED <<now, aggVars, thrVars, nsVars>>

-----------------------------------------------------------------------------
(***************************************************************************)
(* autoscaler.py: execute_scale run by two threads at once, the ingress    *)
(* callback and background_node_health_check.  Nothing locks               *)
(* last_scale_time or the workload, so a call is four steps: the cooldown  *)
(* check, the read of the workload, the patch, the write of                *)
(* last_scale_time.  Both calls scale up.                                  *)
(***************************************************************************)
Threads == {"ingress", "health"}

ThreadAt(pc, bypass_cooldown, multiplier, current, new, ret, start) ==
    [pc |-> pc, bypass_cooldown |-> bypass_cooldown, multiplier |-> multiplier,
     current |-> current, new |-> new, ret |-> ret, start |-> start]

Idle == ThreadAt("idle", FALSE, 10, 0, 0, FALSE, 0)

\* The two background loops start_background_threads starts, each `while True` in a
\* thread of its own.  wake is when the loop's time.sleep returns, phase flips with
\* every iteration, raised says the last iteration ended in the except clause,
\* resumed that it followed one that did, and ended says the loop was left.
BackgroundLoops == {"node_health", "node_autoscaling"}
LoopAt(wake, phase, raised, resumed, ended) ==
    [wake |-> wake, phase |-> phase, raised |-> raised, resumed |-> resumed,
     ended |-> ended]

\* The arguments of the call the ingress callback makes: bypassing with multiplier 1
\* for a CRITICAL event, not bypassing with NODE_FAILURE_SCALE_MULTIPLIER for a node
\* failure decided by should_scale.
IngressCalls ==
    {[bypass_cooldown |-> TRUE, multiplier |-> 10],
     [bypass_cooldown |-> FALSE, multiplier |-> NODE_FAILURE_SCALE_MULTIPLIER]}

\* The arguments of the call background_node_health_check makes.
HealthCall == [bypass_cooldown |-> TRUE, multiplier |-> NODE_FAILURE_SCALE_MULTIPLIER]

\* Both threads decide to scale up and enter execute_scale.
BeginBoth(ingressCall) ==
    /\ \A t \in Threads : threads[t].pc = "idle"
    /\ threads' =
          [t \in Threads |->
              LET call == IF t = "ingress" THEN ingressCall ELSE HealthCall
              IN  ThreadAt("cooldown", call.bypass_cooldown, call.multiplier, 0, 0,
                           FALSE, replicas)]
    /\ UNCHANGED <<loops, now, aggVars, scaleVars, memVars, monVars, cbVars, nsVars>>

\* if last_scale_time and not bypass_cooldown: ... return False
StepCooldown(t) ==
    /\ threads[t].pc = "cooldown"
    /\ threads' = [threads EXCEPT ![t].pc =
                      IF CooldownRejects(threads[t].bypass_cooldown, last_scale_time, now)
                      THEN "done" ELSE "read"]
    /\ UNCHANGED <<loops, now, aggVars, scaleVars, memVars, monVars, cbVars, nsVars>>

\* dep = read_namespaced_deployment(...); current, new; if new == current: return False
StepRead(t) ==
    LET current == CurrentReplicas(replicas)
        new     == NewReplicas("up", current, threads[t].multiplier)
    IN  /\ threads[t].pc = "read"
        /\ threads' = [threads EXCEPT ![t].current = current, ![t].new = new,
                                      ![t].pc = IF new = current THEN "done" ELSE "patch"]
        /\ UNCHANGED <<loops, now, aggVars, scaleVars, memVars, monVars, cbVars, nsVars>>

\* patch_namespaced_deployment(..., dep).  dep carries the resourceVersion that was
\* read: when the workload was written since, the cluster either rejects the patch
\* (conflict is TRUE, the call returns False) or applies it.
StepPatch(t, conflict) ==
    /\ threads[t].pc = "patch"
    /\ conflict => replicas # threads[t].current
    /\ IF conflict
       THEN /\ threads' = [threads EXCEPT ![t].pc = "done"]
            /\ UNCHANGED replicas
       ELSE /\ threads' = [threads EXCEPT ![t].pc = "stamp"]
            /\ replicas' = threads[t].new
    /\ UNCHANGED <<loops, now, aggVars, memVars, monVars, cbVars, nsVars, last_scale_time,
                   lastSuccess, scaleLog>>

\* last_scale_time = now_ist_dt(); return True
StepStamp(t) ==
    /\ threads[t].pc = "stamp"
    /\ threads' = [threads EXCEPT ![t].pc = "done", ![t].ret = TRUE]
    /\ last_scale_time' = Some(now)
    /\ lastSuccess' = Some([at |-> now, bypass_cooldown |-> threads[t].bypass_cooldown])
    /\ UNCHANGED <<loops, now, aggVars, memVars, monVars, cbVars, nsVars, replicas, scaleLog>>

\* Both calls have returned; the threads go back to their loops.
FinishBoth ==
    /\ \A t \in Threads : threads[t].pc = "done"
    /\ threads' = [t \in Threads |-> Idle]
    /\ UNCHANGED <<loops, now, aggVars, scaleVars, memVars, monVars, cbVars, nsVars>>

-----------------------------------------------------------------------------
(***************************************************************************)
(* node_scaler.py: NodeScaler.                                             *)
(*                                                                         *)
(* The node pool is held by counts: size, the node count of the pool at    *)
(* the cloud API; ready and unready, the nodes of the cluster that are and *)
(* are not Ready; draining, the Ready nodes that a scale_down cordoned and *)
(* tainted.  The per-node metrics of one reading are held by what the      *)
(* decisions read of them: the averages and the least and greatest         *)
(* cpu_percent.  Percentages are whole numbers.                            *)
(***************************************************************************)
min_nodes            == 1
max_nodes            == 5
scale_up_threshold   == 80      \* self.scale_up_threshold * 100
scale_down_threshold == 35      \* self.scale_down_threshold * 100
cooldown_minutes     == 3
NodeOverloadedCpu    == 90      \* should_scale_up: node['cpu_percent'] > 90
DrainWaitSeconds     == 30      \* scale_down: time.sleep(30)

Pool(size, ready, unready, draining) ==
    [size |-> size, ready |-> ready, unready |-> unready, draining |-> draining]

\* get_current_node_count(): the Ready nodes, 0 when list_node raises.
get_current_node_count(listOk, p) == IF listOk THEN p.ready ELSE 0

NodeMetrics(node_count, avg_cpu, avg_memory, min_cpu, max_cpu) ==
    [node_count |-> node_count, avg_cpu_percent |-> avg_cpu,
     avg_memory_percent |-> avg_memory, min_cpu_percent |-> min_cpu,
     max_cpu_percent |-> max_cpu]

\* get_node_metrics(): over the Ready nodes; all zeros when there is none or when the
\* metrics API or list_node raises.
get_node_metrics(metricsOk, load, p) ==
    IF metricsOk /\ p.ready > 0
    THEN NodeMetrics(p.ready, load.avg_cpu, load.avg_memory, load.min_cpu, load.max_cpu)
    ELSE NodeMetrics(0, 0, 0, 0, 0)

\* A _cooldown_expired that ends the cooldown one second early.
cooldown_expired_early(lst, t) ==
    IF lst = None THEN TRUE ELSE t - lst[1] >= cooldown_minutes * 60 - 1

\* _cooldown_expired()
cooldown_expired(lst, t) ==
    IF lst = None THEN TRUE ELSE t - lst[1] >= cooldown_minutes * 60

\* A should_scale_up that triggers at the thresholds themselves.
should_scale_up_inclusive(metrics, unschedulable, lst, t) ==
    IF metrics.node_count >= max_nodes THEN FALSE
    ELSE IF ~cooldown_expired(lst, t) THEN FALSE
    ELSE IF unschedulable > 0 THEN TRUE
    ELSE IF metrics.avg_cpu_percent >= scale_up_threshold THEN TRUE
    ELSE IF metrics.avg_memory_percent >= scale_up_threshold THEN TRUE
    ELSE metrics.node_count > 0 /\ metrics.max_cpu_percent >= NodeOverloadedCpu

\* should_scale_up(metrics, unschedulable_pods), unschedulable being their number
should_scale_up(metrics, unschedulable, lst, t) ==
    IF metrics.node_count >= max_nodes THEN FALSE
    ELSE IF ~cooldown_expired(lst, t) THEN FALSE
    ELSE IF unschedulable > 0 THEN TRUE
    ELSE IF metrics.avg_cpu_percent > scale_up_threshold THEN TRUE
    ELSE IF metrics.avg_memory_percent > scale_up_threshold THEN TRUE
    ELSE metrics.node_count > 0 /\ metrics.max_cpu_percent > NodeOverloadedCpu

\* A should_scale_down that looks at the node of greatest cpu%.
should_scale_down_greatest(metrics, lst, t) ==
    IF metrics.node_count <= min_nodes THEN FALSE
    ELSE IF ~cooldown_expired(lst, t) THEN FALSE
    ELSE IF metrics.avg_cpu_percent > scale_down_threshold THEN FALSE
    ELSE IF metrics.avg_memory_percent > scale_down_threshold THEN FALSE
    ELSE metrics.node_count > 1 /\ metrics.max_cpu_percent < scale_down_threshold

\* should_scale_down(metrics)
should_scale_down(metrics, lst, t) ==
    IF metrics.node_count <= min_nodes THEN FALSE
    ELSE IF ~cooldown_expired(lst, t) THEN FALSE
    ELSE IF metrics.avg_cpu_percent > scale_down_threshold THEN FALSE
    ELSE IF metrics.avg_memory_percent > scale_down_threshold THEN FALSE
    ELSE metrics.node_count > 1 /\ metrics.min_cpu_percent < scale_down_threshold

\* What the cluster and the cloud answer during one check_and_scale:
\*   metricsOk     whether get_node_metrics' API calls succeed
\*   load          the usage of the Ready nodes
\*   unschedulable the pending pods that found no node with room
\*   listOk        whether the list_node of get_current_node_count succeeds
\*   nodeApiOk     whether the cordon and the taint of scale_down succeed
\*   alreadyMarked whether the node scale_down picked is one already draining
\*   gkeOk         whether set_node_pool_size succeeds
NsObs(metricsOk, load, unschedulable, listOk, nodeApiOk, alreadyMarked, gkeOk) ==
    [metricsOk |-> metricsOk, load |-> load, unschedulable |-> unschedulable,
     listOk |-> listOk, nodeApiOk |-> nodeApiOk, alreadyMarked |-> alreadyMarked,
     gkeOk |-> gkeOk]

\* A pod listed on a node: its name, its namespace and the kinds of its owner
\* references (none when owner_references is None).
NodePod(name, namespace, owners) == [name |-> name, namespace |-> namespace, owners |-> owners]

\* _is_daemonset_pod(pod)
is_daemonset_pod(pod) == "DaemonSet" \in pod.owners

\* One call scale_down makes, in the order made: op names it, pod is the pod deleted
\* ("" otherwise), num the grace period, the seconds slept or the node count
\* requested, ok whether it succeeded.
Step(op, pod, num, ok) == [op |-> op, pod |-> pod, num |-> num, ok |-> ok]

DrainGraceSeconds == 30    \* grace_period_seconds=30

\* A drain that gives up at the first delete that fails.
RECURSIVE drain_pods_stops_on_failure(_, _)
drain_pods_stops_on_failure(pods, deleteFails) ==
    IF pods = <<>> THEN <<>>
    ELSE IF is_daemonset_pod(Head(pods)) \/ Head(pods).namespace = "kube-system"
    THEN drain_pods_stops_on_failure(Tail(pods), deleteFails)
    ELSE IF Head(pods).name \in deleteFails
    THEN <<Step("delete_pod", Head(pods).name, DrainGraceSeconds, FALSE)>>
    ELSE <<Step("delete_pod", Head(pods).name, DrainGraceSeconds, TRUE)>>
           \o drain_pods_stops_on_failure(Tail(pods), deleteFails)

\* The loop of _drain_node over the listed pods: the delete calls it makes, the ones
\* on the pods of deleteFails raising.
RECURSIVE drain_pods(_, _)
drain_pods(pods, deleteFails) ==
    IF pods = <<>> THEN <<>>
    ELSE IF is_daemonset_pod(Head(pods)) \/ Head(pods).namespace = "kube-system"
    THEN drain_pods(Tail(pods), deleteFails)
    ELSE <<Step("delete_pod", Head(pods).name, DrainGraceSeconds,
                Head(pods).name \notin deleteFails)>>
           \o drain_pods(Tail(pods), deleteFails)

\* _drain_node(node_name): listed is the pod list of the node, None when the list
\* call raised; the delete calls made and evicted_count.
drain_node(listed, deleteFails) ==
    LET calls == IF listed = None THEN <<>> ELSE drain_pods(listed[1], deleteFails)
    IN  [calls |-> calls, evicted_count |-> Len(SelectSeq(calls, LAMBDA c : c.ok))]

\* What the cluster answers to the cordon, the taint and the drain of scale_down.
DrainObs(cordonOk, taintOk, listed, deleteFails) ==
    [cordonOk |-> cordonOk, taintOk |-> taintOk, listed |-> listed,
     deleteFails |-> deleteFails]

\* The calls of scale_down after it computed target_nodes: _cordon_node and
\* _mark_node_draining (each swallows its exception), _drain_node, the sleep, the
\* resize request, which succeeds when resized is TRUE.
scale_down_steps(drain, target_nodes, resized) ==
    <<Step("patch_unschedulable", "", 0, drain.cordonOk),
      Step("add_draining_taint", "", 0, drain.taintOk)>>
    \o drain_node(drain.listed, drain.deleteFails).calls
    \o <<Step("sleep", "", DrainWaitSeconds, TRUE),
         Step("set_node_pool_size", "", target_nodes, resized)>>

\* What one check_and_scale returns and writes, run on the pool p at time t.  The
\* cloud rejects a negative node count.
CheckAndScaleOutcome(obs, p, lst, t) ==
    LET metrics == get_node_metrics(obs.metricsOk, obs.load, p)
        up      == should_scale_up(metrics, obs.unschedulable, lst, t)
        down    == ~up /\ should_scale_down(metrics, lst, t)
        current == get_current_node_count(obs.listOk, p)
        target  == IF up THEN current + 1 ELSE current - 1
        success == (up \/ down) /\ obs.gkeOk /\ target >= 0
        marks   == down /\ obs.nodeApiOk /\ ~obs.alreadyMarked /\ p.draining < p.ready
        ends    == IF down THEN t + DrainWaitSeconds ELSE t
    IN  [action    |-> IF up THEN "scale_up" ELSE IF down THEN "scale_down"
                       ELSE "no_action",
         success   |-> success,
         requested |-> IF up \/ down THEN Some(target) ELSE None,
         current   |-> current,
         metrics   |-> metrics,
         sizeBefore |-> p.size,
         readyBefore |-> p.ready,
         ends      |-> ends,
         pool      |-> [p EXCEPT !.size = IF success THEN target ELSE @,
                                 !.draining = IF marks THEN @ + 1 ELSE @],
         last      |-> IF success THEN Some(ends) ELSE lst]

NoNsCall ==
    [called |-> FALSE, action |-> "no_action", success |-> FALSE, requested |-> None,
     current |-> 0, metrics |-> NodeMetrics(0, 0, 0, 0, 0), sizeBefore |-> 0,
     readyBefore |-> 0, metricsOk |-> TRUE, listOk |-> TRUE, steps |-> <<>>,
     listed |-> None]

\* The record kept of a check_and_scale call.
NsCallRecord(obs, drain, out) ==
    [called |-> TRUE, action |-> out.action, success |-> out.success,
     requested |-> out.requested, current |-> out.current,
     metrics |-> out.metrics, sizeBefore |-> out.sizeBefore,
     readyBefore |-> out.readyBefore, metricsOk |-> obs.metricsOk,
     listOk |-> obs.listOk,
     steps |-> IF out.action = "scale_down"
               THEN scale_down_steps(drain, out.requested[1], out.success)
               ELSE <<>>,
     listed |-> IF out.action = "scale_down" THEN drain.listed ELSE None]

\* One whole check_and_scale call; a scale_down takes DrainWaitSeconds.  obs.nodeApiOk
\* says whether both the cordon and the taint of drain succeed.
CheckAndScale(obs, drain) ==
    LET out == CheckAndScaleOutcome(obs, pool, ns_last_scale_time, now)
    IN  /\ obs.alreadyMarked => pool.draining > 0
        /\ obs.nodeApiOk = (drain.cordonOk /\ drain.taintOk)
        /\ now' = out.ends
        /\ pool' = out.pool
        /\ ns_last_scale_time' = out.last
        /\ nsLog' = NsCallRecord(obs, drain, out)
        /\ UNCHANGED <<aggVars, scaleVars, memVars, monVars, cbVars, thrVars>>

\* The cloud brings the cluster to the pool's size: a node joins, Ready.
PoolNodeJoins ==
    /\ pool.ready + pool.unready < pool.size
    /\ pool' = [pool EXCEPT !.ready = @ + 1]
    /\ nsLog' = NoNsCall
    /\ UNCHANGED <<now, aggVars, scaleVars, memVars, monVars, cbVars, thrVars,
                   ns_last_scale_time>>

\* The cloud brings the cluster to the pool's size: a Ready node leaves, a draining
\* one (marked is TRUE) or another.
PoolNodeLeaves(marked) ==
    /\ pool.ready + pool.unready > pool.size
    /\ pool.ready > 0
    /\ marked => pool.draining > 0
    /\ ~marked => pool.draining < pool.ready
    /\ pool' = [pool EXCEPT !.ready = @ - 1,
                            !.draining = IF marked THEN @ - 1 ELSE @]
    /\ nsLog' = NoNsCall
    /\ UNCHANGED <<now, aggVars, scaleVars, memVars, monVars, cbVars, thrVars,
                   ns_last_scale_time>>

\* A Ready node that is not draining stops being Ready, or a node comes back.
PoolNodeReadyChanges(fails) ==
    /\ IF fails
       THEN /\ pool.ready > pool.draining
            /\ pool' = [pool EXCEPT !.ready = @ - 1, !.unready = @ + 1]
       ELSE /\ pool.unready > 0
            /\ pool' = [pool EXCEPT !.ready = @ + 1, !.unready = @ - 1]
    /\ nsLog' = NoNsCall
    /\ UNCHANGED <<now, aggVars, scaleVars, memVars, monVars, cbVars, thrVars,
                   ns_last_scale_time>>

-----------------------------------------------------------------------------
(***************************************************************************)
(* Specifications.                                                         *)
(***************************************************************************)
InitAgg   == rawPayload = None /\ event = None /\ sevTrace = <<>>
InitScale ==
    /\ replicas = MIN_REPLICAS
    /\ last_scale_time = None
    /\ lastSuccess = None
    /\ scaleLog = NoCall

InitMem ==
    /\ memLimit = Some(MemStr(256, "Mi"))
    /\ memRequest = Some(MemStr(256, "Mi"))
    /\ oom_history = [p \in Pods |-> None]
    /\ adjustment_history = None
    /\ memLog = NoMemCall @@ [op |-> "none"]

InitMon ==
    /\ clusterNodes = Nodes
    /\ nodes = [n \in Nodes |-> NodeView(TRUE, FALSE, FALSE)]
    /\ unhealthy_nodes = [n \in Nodes |-> None]
    /\ quarantined_nodes = {}
    /\ monLog = NoMonCall

InitCb ==
    /\ metrics_window = <<>>
    /\ crash_loop_pods = [p \in Pods |-> 0]
    /\ cbLog = NoCallback
    /\ added = <<>>
    /\ ssLog = NoShouldScale

InitThreads ==
    /\ threads = [t \in Threads |-> Idle]
    /\ loops = [l \in BackgroundLoops |-> LoopAt(0, FALSE, FALSE, FALSE, FALSE)]

InitNodeScaler ==
    /\ pool = Pool(3, 3, 0, 0)
    /\ ns_last_scale_time = None
    /\ nsLog = NoNsCall

InitRest == InitThreads /\ InitNodeScaler

Init == now = 0 /\ InitAgg /\ InitScale /\ InitMem /\ InitMon /\ InitCb /\ InitRest

\* The replica controller, its calls running one at a time.
TickScale == \E d \in TickSteps : Tick(d) /\ scaleLog' = NoCall
                 /\ UNCHANGED <<aggVars, memVars, monVars, cbVars, thrVars, nsVars, replicas, last_scale_time, lastSuccess>>
CallExecuteScale ==
    \E action \in Actions, bypass_cooldown \in BOOLEAN, multiplier \in Multipliers,
       api \in ApiOutcomes :
        ExecuteScale(action, bypass_cooldown, multiplier, api)
SetReplicas == \E r \in 0..MaxReplicasRead : ExternalScale(r)

NextScale == TickScale \/ CallExecuteScale \/ SetReplicas
SpecScale == Init /\ [][NextScale]_vars

\* The aggregator.
TickAgg == \E d \in TickSteps : Tick(d) /\ UNCHANGED <<aggVars, scaleVars, memVars, monVars, cbVars, thrVars, nsVars>>
Receive == \E obj \in Payloads : Index(obj)

NextAgg == TickAgg \/ Receive
SpecAgg == Init /\ [][NextAgg]_vars

\* The memory optimiser, on a workload deployed with any of the limits of MemLimits.
InitMemAny ==
    /\ now = 0 /\ InitAgg /\ InitScale /\ InitMon /\ InitCb /\ InitRest
    /\ memLimit \in MemLimits
    /\ memRequest = memLimit
    /\ oom_history = [p \in Pods |-> None]
    /\ adjustment_history = None
    /\ memLog = NoMemCall @@ [op |-> "none"]

MemTickSteps == {299, 300}
TickMem ==
    \E d \in MemTickSteps :
        /\ now + d <= MaxTimeMem
        /\ now' = now + d
        /\ UNCHANGED <<aggVars, scaleVars, memVars, monVars, cbVars, thrVars, nsVars>>
CallAdjust    == \E api \in ApiOutcomes : AdjustMemoryLimits(api)
CallRecordOom == \E p \in Pods : RecordOomEvent(p)

NextMem == TickMem \/ CallAdjust \/ CallRecordOom
SpecMem == InitMemAny /\ [][NextMem]_vars

\* The node health monitor, its checks running one at a time, on a cluster whose
\* nodes fail and recover and are cordoned and uncordoned by operators.
MonTickSteps == {300, 301}
TickMon ==
    \E d \in MonTickSteps :
        /\ now + d <= MaxTimeMon
        /\ now' = now + d
        /\ monLog' = NoMonCall
        /\ UNCHANGED <<aggVars, scaleVars, memVars, cbVars, thrVars, nsVars, clusterNodes, nodes,
                       unhealthy_nodes, quarantined_nodes>>
CallCheckNodeHealth ==
    \E listOk \in BOOLEAN, patchFails \in SUBSET Nodes : CheckNodeHealth(listOk, patchFails)
NodeFlips == \E n \in Nodes : NodeReadyChanges(n)
Cordoning == \E n \in Nodes : OperatorCordons(n)

NextMon == TickMon \/ CallCheckNodeHealth \/ NodeFlips \/ Cordoning
SpecMon == Init /\ [][NextMon]_vars

\* The ingress callback receiving CRITICAL events, events without metrics and
\* undecodable messages, one at a time, on a workload of any size.
InitCritical ==
    /\ now = 0 /\ InitAgg /\ InitMem /\ InitMon /\ InitCb /\ InitRest
    /\ replicas \in MIN_REPLICAS..MAX_REPLICAS
    /\ last_scale_time = None
    /\ lastSuccess = None
    /\ scaleLog = NoCall

CriticalTickSteps == {1}
TickCritical ==
    \E d \in CriticalTickSteps :
        /\ now + d <= MaxTimeCritical
        /\ now' = now + d
        /\ UNCHANGED <<aggVars, scaleVars, memVars, monVars, cbVars, thrVars, nsVars>>

\* What the cluster answers when no metrics are handled: only execute_scale asks.
ShortEnv(scaleApi) ==
    [pods |-> None, memApi |-> "ok", listOk |-> TRUE, patchFails |-> {},
     lossListOk |-> TRUE, backlog |-> [size |-> None, age |-> None],
     scaleApi |-> scaleApi]

ReceiveCritical ==
    \E api \in ApiOutcomes : Callback(EventMsg("CRITICAL", None), ShortEnv(api))
ReceiveOther ==
    \E msg \in {Undecodable, EventMsg("INFO", None), EventMsg("WARNING", None)} :
        Callback(msg, ShortEnv("ok"))

NextCritical == TickCritical \/ ReceiveCritical \/ ReceiveOther
SpecCritical == InitCritical /\ [][NextCritical]_vars

\* The ingress callback receiving events with metrics, one at a time, while a node
\* fails and recovers and the pod of the workload is or is not OOM-killed.
IngressSamples ==
    {[cpu |-> Centi(20), net_latency_ms |-> Centi(100), error_rate |-> 0],
     [cpu |-> Centi(95), net_latency_ms |-> Centi(600), error_rate |-> 900]}
IngressPods ==
    {Some(<<[name |-> "workload-a", status |-> "running"]>>),
     Some(<<[name |-> "workload-a", status |-> "oom_running"]>>)}
IngressBacklogs ==
    {[size |-> None, age |-> None], [size |-> Some(1001), age |-> Some(10)]}

IngressTickSteps == {30}
TickIngress ==
    \E d \in IngressTickSteps :
        /\ now + d <= MaxTimeIngress
        /\ now' = now + d
        /\ UNCHANGED <<aggVars, scaleVars, memVars, monVars, cbVars, thrVars, nsVars>>

ReceiveMetrics ==
    \E m \in IngressSamples, pods \in IngressPods, backlog \in IngressBacklogs :
        /\ (\E i \in 1..Len(pods[1]) : IsOomKilled(pods[1][i].status)) =>
               \A p \in Pods : oom_history[p] # None =>
                                    oom_history[p][1].count < MaxOomIngress
        /\ Callback(EventMsg("INFO", Some(m)),
                    [pods |-> pods, memApi |-> "ok", listOk |-> TRUE,
                     patchFails |-> {}, lossListOk |-> TRUE, backlog |-> backlog,
                     scaleApi |-> "ok"])
NodeFails == NodeReadyChanges("n1")

NextIngress == TickIngress \/ ReceiveMetrics \/ NodeFails
SpecIngress == Init /\ [][NextIngress]_vars

\* The ingress callback and the node-health loop deciding to scale up at the same
\* time, again and again, their execute_scale calls interleaving step by step.
RaceTickSteps == {30}
TickRace ==
    \E d \in RaceTickSteps :
        /\ now + d <= MaxTimeRace
        /\ now' = now + d
        /\ UNCHANGED <<aggVars, scaleVars, memVars, monVars, cbVars, thrVars, nsVars>>
BothDecide  == \E call \in IngressCalls : BeginBoth(call)
CheckCooldown == \E t \in Threads : StepCooldown(t)
ReadWorkload  == \E t \in Threads : StepRead(t)
PatchWorkload == \E t \in Threads, conflict \in BOOLEAN : StepPatch(t, conflict)
StampTime     == \E t \in Threads : StepStamp(t)

NextRace ==
    \/ TickRace \/ BothDecide \/ CheckCooldown \/ ReadWorkload \/ PatchWorkload
    \/ StampTime \/ FinishBoth
SpecRace == Init /\ [][NextRace]_vars

\* The node-pool scaler, its checks running one at a time, on a pool of any size
\* within the bounds whose nodes join, leave, fail and recover.
InitNode ==
    /\ now = 0 /\ InitAgg /\ InitScale /\ InitMem /\ InitMon /\ InitCb /\ InitThreads
    /\ \E n \in min_nodes..max_nodes : pool = Pool(n, n, 0, 0)
    /\ ns_last_scale_time = None
    /\ nsLog = NoNsCall

NodeLoad(avg_cpu, avg_memory, min_cpu, max_cpu) ==
    [avg_cpu |-> avg_cpu, avg_memory |-> avg_memory, min_cpu |-> min_cpu,
     max_cpu |-> max_cpu]

\* Idle, moderate, busy on cpu, busy on memory, and uneven with one node overloaded.
NodeLoads ==
    {NodeLoad(20, 20, 20, 20), NodeLoad(50, 50, 50, 50), NodeLoad(85, 50, 85, 85),
     NodeLoad(50, 85, 50, 50), NodeLoad(60, 50, 25, 95)}

\* The loads a cluster of `ready` Ready nodes can show: one node shows no spread.
LoadsFor(ready) ==
    {l \in NodeLoads : ready <= 1 => l.min_cpu = l.max_cpu}

NodeTickSteps == {120}
TickNode ==
    \E d \in NodeTickSteps :
        /\ now + d <= MaxTimeNode
        /\ now' = now + d
        /\ nsLog' = NoNsCall
        /\ UNCHANGED <<aggVars, scaleVars, memVars, monVars, cbVars, thrVars, pool,
                       ns_last_scale_time>>

\* The node scale_down drains holds one pod of the workload, whose delete succeeds.
StandardDrain(nodeApiOk) ==
    DrainObs(nodeApiOk, nodeApiOk,
             Some(<<NodePod("workload-a", "default", {"ReplicaSet"})>>), {})

\* The answers that no step of the call reads are held at one value.
CallCheckAndScale ==
    \E metricsOk \in BOOLEAN, unschedulable \in {0, 1} :
      \E load \in IF metricsOk THEN LoadsFor(pool.ready) ELSE {NodeLoad(0, 0, 0, 0)} :
        LET metrics == get_node_metrics(metricsOk, load, pool)
            up      == should_scale_up(metrics, unschedulable, ns_last_scale_time, now)
            down    == ~up /\ should_scale_down(metrics, ns_last_scale_time, now)
        IN  \E listOk \in IF up \/ down THEN BOOLEAN ELSE {TRUE},
               gkeOk \in IF up \/ down THEN BOOLEAN ELSE {TRUE},
               nodeApiOk \in IF down THEN BOOLEAN ELSE {TRUE},
               alreadyMarked \in IF down THEN BOOLEAN ELSE {FALSE} :
                /\ now + DrainWaitSeconds <= MaxTimeNode
                /\ pool.size < MaxPoolSize
                /\ CheckAndScale(NsObs(metricsOk, load, unschedulable, listOk,
                                       nodeApiOk, alreadyMarked, gkeOk),
                                 StandardDrain(nodeApiOk))
PoolFollows == PoolNodeJoins \/ (\E marked \in BOOLEAN : PoolNodeLeaves(marked))
PoolNodeFlips ==
    \E fails \in BOOLEAN : (fails => pool.unready < MaxUnready) /\ PoolNodeReadyChanges(fails)

NextNode == TickNode \/ CallCheckAndScale \/ PoolFollows \/ PoolNodeFlips
SpecNode == InitNode /\ [][NextNode]_vars

-----------------------------------------------------------------------------
(***************************************************************************)
(* Properties of the classifier.                                           *)
(***************************************************************************)
\* C9: within one classification of a metrics payload the severity never decreases
\* from one rule to the next (initial value, cpu, memory, error_rate, latency).
C9_SeverityNeverDecreases ==
    sevTrace # <<>> =>
        \A i \in 1..(Len(sevTrace) - 1) :
            SeverityRank(sevTrace[i]) <= SeverityRank(sevTrace[i + 1])

\* A payload whose cpu rule gave CRITICAL and whose error_rate rule (5 < rate <= 8)
\* and latency rule (> 400) both fired afterwards.
C9_Witness ==
    /\ sevTrace # <<>>
    /\ sevTrace[2] = "CRITICAL"
    /\ MGet(rawPayload[1].metrics[1], "error_rate") = 501
    /\ MGet(rawPayload[1].metrics[1], "net_latency_ms") = Centi(401)
    /\ event[1].severity = "CRITICAL"

\* The reference classification of a metrics dictionary.
ReferenceSeverity(m) ==
    LET cpu        == MGet(m, "cpu")
        mem        == MGet(m, "memory")
        error_rate == MGet(m, "error_rate")
        latency    == MGet(m, "net_latency_ms")
    IN  IF cpu > Centi(90) \/ mem > Centi(90) \/ error_rate > Centi(8) THEN "CRITICAL"
        ELSE IF cpu > Centi(75) \/ error_rate > Centi(5) \/ latency > Centi(400)
             THEN "WARNING"
        ELSE "INFO"

\* C10: the severity of the event published for a metrics payload is the reference
\* severity, with strict thresholds (cpu 90 is WARNING and 91 CRITICAL; error_rate 5
\* changes nothing, 5.01 gives WARNING, 8.01 CRITICAL).
C10_SeverityIsReference ==
    (event # None /\ event[1].event_type = "metrics_event") =>
        /\ event[1].severity = ReferenceSeverity(event[1].metrics[1])
        /\ event[1].metrics = rawPayload[1].metrics

\* cpu exactly 90 with error_rate exactly 5: the published severity is WARNING.
C10_Witness ==
    /\ event # None
    /\ event[1].event_type = "metrics_event"
    /\ MGet(event[1].metrics[1], "cpu") = Centi(90)
    /\ MGet(event[1].metrics[1], "error_rate") = 500
    /\ MGet(event[1].metrics[1], "memory") = 0
    /\ event[1].severity = "WARNING"

-----------------------------------------------------------------------------
(***************************************************************************)
(* Properties of execute_scale, its calls running one at a time.           *)
(***************************************************************************)
\* C1: every execute_scale call that patches the workload writes a replica count in
\* [MIN_REPLICAS, MAX_REPLICAS], whatever count it read from the cluster.
C1_WrittenReplicasInBounds ==
    (scaleLog.called /\ scaleLog.patched) =>
        (MIN_REPLICAS <= scaleLog.written /\ scaleLog.written <= MAX_REPLICAS)

\* C2: a call made without bypass_cooldown less than COOLDOWN_SECONDS after the last
\* successful call (bypassing or not) is rejected and changes neither the replica
\* count nor last_scale_time.
C2_CooldownAfterSuccess ==
    (/\ scaleLog.called
     /\ ~scaleLog.bypass_cooldown
     /\ scaleLog.prevSuccess # None
     /\ scaleLog.at - scaleLog.prevSuccess[1].at < COOLDOWN_SECONDS)
    => (/\ ~scaleLog.ret
        /\ ~scaleLog.patched
        /\ replicas = scaleLog.replicasBefore
        /\ last_scale_time = scaleLog.lastBefore)

\* A non-bypassing scale-up 59 s after a successful bypassing call, with the cluster
\* API working and room to scale: only the cooldown can have rejected it.
C2_Witness ==
    /\ scaleLog.called
    /\ ~scaleLog.bypass_cooldown
    /\ scaleLog.action = "up"
    /\ scaleLog.api = "ok"
    /\ scaleLog.replicasBefore = 3
    /\ scaleLog.prevSuccess # None
    /\ scaleLog.prevSuccess[1].bypass_cooldown
    /\ scaleLog.at - scaleLog.prevSuccess[1].at = 59
    /\ ~scaleLog.ret

-----------------------------------------------------------------------------
(***************************************************************************)
(* Properties of the memory optimiser.                                     *)
(***************************************************************************)
\* C3: after every successful adjust_memory_limits call the memory limit written to
\* the workload lies in [128Mi, 2Gi], whatever the limit was before.
C3_WrittenLimitInBounds ==
    (memLog.op = "adjust" /\ memLog.ok) =>
        /\ parse_memory(min_memory) <= parse_memory(memLimit[1])
        /\ parse_memory(memLimit[1]) <= parse_memory(max_memory)

-----------------------------------------------------------------------------
(***************************************************************************)
(* Properties of the node health monitor.                                  *)
(***************************************************************************)
\* C6: a quarantined node that is Ready again at a check_node_health is, after that
\* check, out of the quarantined set and out of the first-unhealthy record, nobody
\* else having made it schedulable (the check's own patches succeeding).
C6_QuarantineClearedOnRecovery ==
    (monLog.called /\ monLog.listed # None) =>
        \A n \in monLog.quarantinedBefore \cap monLog.listed[1] :
            (monLog.seen[n].ready /\ n \notin monLog.patchFails) =>
                (n \notin quarantined_nodes /\ unhealthy_nodes[n] = None)

-----------------------------------------------------------------------------
(***************************************************************************)
(* Properties of the ingress callback.                                     *)
(***************************************************************************)
\* C4: two CRITICAL events handled by the callback one after the other and within
\* 1 s of each other add at most one replica in total, the replica count before the
\* first being below MAX_REPLICAS.
C4_TwoCriticalsAddOneReplica ==
    [][(/\ cbLog.called /\ cbLog.path = "critical"
        /\ cbLog'.called /\ cbLog'.path = "critical"
        /\ scaleLog'.called /\ scaleLog'.replicasBefore = cbLog.replicasAfter
        /\ cbLog'.at - cbLog.at <= 1
        /\ cbLog.replicasBefore < MAX_REPLICAS)
       => (cbLog.replicasAfter - cbLog.replicasBefore)
            + (replicas' - cbLog.replicasAfter) <= 1]_vars

\* C7: a scale-up the callback decides for an OOM or a node failure patches the
\* replica count although a scale action succeeded less than COOLDOWN_SECONDS
\* before, the replica count being below MAX_REPLICAS and the cluster API working.
C7_EmergencyDecisionBypassesCooldown ==
    (/\ cbLog.called /\ cbLog.path = "metrics"
     /\ cbLog.decision.action = Some("up")
     /\ cbLog.decision.reason \in {"OOM detected", "Node failure"}
     /\ scaleLog.called /\ scaleLog.api = "ok"
     /\ scaleLog.replicasBefore < MAX_REPLICAS
     /\ scaleLog.prevSuccess # None
     /\ scaleLog.at - scaleLog.prevSuccess[1].at < COOLDOWN_SECONDS)
    => (scaleLog.bypass_cooldown /\ scaleLog.patched)

-----------------------------------------------------------------------------
(***************************************************************************)
(* Properties of execute_scale called by two threads at once.              *)
(***************************************************************************)
\* C5: when the ingress callback and the node-health loop decided to scale up at the
\* same time and both calls have returned, the replica count is exactly one scale
\* step above the count at the time of the decision.
C5_DuplicateScaleUpCollapsed ==
    (\A t \in Threads : threads[t].pc = "done" /\ threads[t].start < MAX_REPLICAS) =>
        \E t \in Threads :
            replicas = NewReplicas("up", threads[t].start, threads[t].multiplier)

-----------------------------------------------------------------------------
(***************************************************************************)
(* Properties of the node-pool scaler.                                     *)
(***************************************************************************)
\* C8: every pool-resize request of check_and_scale carries a node count within
\* [min_nodes, max_nodes], one more than the pool has on a scale-up and one fewer on
\* a scale-down, also when the node list or the node metrics cannot be read or some
\* nodes are not Ready.
C8_ResizeRequestInBounds ==
    (nsLog.called /\ nsLog.requested # None) =>
        /\ min_nodes <= nsLog.requested[1]
        /\ nsLog.requested[1] <= max_nodes
        /\ nsLog.action = "scale_up" => nsLog.requested[1] = nsLog.sizeBefore + 1
        /\ nsLog.action = "scale_down" => nsLog.requested[1] = nsLog.sizeBefore - 1

-----------------------------------------------------------------------------
(***************************************************************************)
(* Properties of the classifier across calls.                              *)
(***************************************************************************)
\* C11: classifying the same raw payload twice gives identical events, every field
\* equal, whatever happens between the two classifications: when a classification
\* replaces the published event of the same payload, the new event equals the old.
C11_SamePayloadSameEvent ==
    [][(rawPayload # None /\ rawPayload' = rawPayload /\ event # None /\ event' # None)
          => event' = event]_vars

-----------------------------------------------------------------------------
(***************************************************************************)
(* The metrics window on its own: add() called again and again with the    *)
(* metrics of an event, get_stats() read in every state.                   *)
(***************************************************************************)
MaxAdds == 7    \* the add() calls followed

\* Events' metrics: three latencies, and one dictionary without net_latency_ms.
WindowMetrics ==
    {[cpu |-> Centi(20), net_latency_ms |-> Centi(100), error_rate |-> 0],
     [cpu |-> Centi(50), net_latency_ms |-> Centi(500), error_rate |-> 0],
     [cpu |-> Centi(95), net_latency_ms |-> Centi(600), error_rate |-> 900],
     [cpu |-> Centi(60)]}

\* metrics_window.add(timestamp, m)
Add(m) ==
    /\ Len(added) < MaxAdds
    /\ metrics_window' = WindowAdd(metrics_window, SampleOf(m))
    /\ added' = Append(added, SampleOf(m))
    /\ UNCHANGED <<now, crash_loop_pods, cbLog, ssLog, aggVars, scaleVars, memVars, monVars,
                   thrVars, nsVars>>

AddSample == \E m \in WindowMetrics : Add(m)

NextWindow == AddSample
SpecWindow == Init /\ [][NextWindow]_vars

\* C12: for every window content the percentiles get_stats returns are ordered,
\* latency_p90 <= latency_p95 <= latency_p99.
C12_PercentilesOrdered ==
    metrics_window # <<>> =>
        LET stats == get_stats(metrics_window)
        IN  /\ stats.latency_p90 <= stats.latency_p95
            /\ stats.latency_p95 <= stats.latency_p99

\* A full window whose latencies arrived out of order (600, 0, 100, 500, 100): the
\* three percentiles are the largest of them.
C12_Witness ==
    /\ Len(metrics_window) = window_size
    /\ Column(metrics_window, "latency")
         = <<Centi(600), 0, Centi(100), Centi(500), Centi(100)>>
    /\ get_stats(metrics_window).latency_p90 = Centi(600)
    /\ get_stats(metrics_window).latency_p99 = Centi(600)

\* C13: after any sequence of add calls the window holds at most window_size samples,
\* and they are the most recent min(k, window_size) of the k samples added, in
\* arrival order.
C13_WindowIsLatestSamples ==
    LET k == Len(added)
        n == Min2(k, window_size)
    IN  /\ Len(metrics_window) <= window_size
        /\ metrics_window = SubSeq(added, k - n + 1, k)

\* Seven samples added, the first two different from the ones that followed them
\* into the window: the window is the last five.
C13_Witness ==
    /\ Len(added) = MaxAdds
    /\ added[1] # added[6]
    /\ added[2] # added[7]
    /\ added[1] # added[2]
    /\ Len(metrics_window) = window_size
    /\ metrics_window[1] = added[3]
    /\ metrics_window[window_size] = added[MaxAdds]

-----------------------------------------------------------------------------
(***************************************************************************)
(* The ingress callback in a quiet cluster: pods running, nodes Ready, the *)
(* backlog empty, so that should_scale decides by the composite score.     *)
(***************************************************************************)
\* Two light samples (composite 11 and 17) and two at the scale-up threshold: with
\* p95 = 500 the composite is 0.4 * cpu + 35, 70 at cpu 87.5 and 70.2 at cpu 88.
CompositeSamples ==
    {[cpu |-> Centi(10), net_latency_ms |-> Centi(100), error_rate |-> 0],
     [cpu |-> Centi(25), net_latency_ms |-> Centi(100), error_rate |-> 0],
     [cpu |-> 8750, net_latency_ms |-> Centi(500), error_rate |-> 0],
     [cpu |-> Centi(88), net_latency_ms |-> Centi(500), error_rate |-> 0]}

QuietEnv ==
    [pods |-> Some(<<[name |-> "workload-a", status |-> "running"]>>),
     memApi |-> "ok", listOk |-> TRUE, patchFails |-> {}, lossListOk |-> TRUE,
     backlog |-> [size |-> Some(0), age |-> Some(0)], scaleApi |-> "ok"]

ReceiveSample == \E m \in CompositeSamples : Callback(EventMsg("INFO", Some(m)), QuietEnv)

NextComposite == ReceiveSample
SpecComposite == Init /\ [][NextComposite]_vars

\* C14: when should_scale decides by its last rule, with p95 <= 500, p99 <= 1000 and
\* the trend not spiking: a composite of exactly 70 gives no action and a composite
\* above 70 gives up; a composite below 30 gives down when the trend is stable and
\* no action when the trend is increasing.
C14_CompositeThresholds ==
    (cbLog.called /\ cbLog.path = "metrics"
       /\ cbLog.decision.reason \in {"High load", "Low load", "Normal"}) =>
        LET stats     == get_stats(metrics_window)
            composite == calculate_composite_score(stats)
            action    == cbLog.decision.action
        IN  (/\ stats.latency_p95 <= Centi(LATENCY_P95_THRESHOLD)
             /\ stats.latency_p99 <= Centi(LATENCY_P99_THRESHOLD)
             /\ stats.trend # "spiking") =>
                /\ composite = Centi(70) => action = None
                /\ composite > Centi(70) => action = Some("up")
                /\ (composite < Centi(30) /\ stats.trend = "stable") => action = Some("down")
                /\ (composite < Centi(30) /\ stats.trend = "increasing") => action = None

\* Five samples of cpu 87.5 and latency 500: the composite is exactly 70 and the
\* callback decided nothing.
C14_Witness ==
    /\ cbLog.called /\ cbLog.path = "metrics"
    /\ Len(metrics_window) = window_size
    /\ calculate_composite_score(get_stats(metrics_window)) = Centi(70)
    /\ get_stats(metrics_window).latency_p95 = Centi(LATENCY_P95_THRESHOLD)
    /\ cbLog.decision = Decision(None, "Normal")

-----------------------------------------------------------------------------
(***************************************************************************)
(* The ingress callback while the services it asks fail: the pod list      *)
(* raises, the backlog queries raise or find no series, the replica patch  *)
(* is rejected; and messages that are not well-formed metrics events.      *)
(***************************************************************************)
ProbeSamples ==
    {[cpu |-> Centi(20), net_latency_ms |-> Centi(100), error_rate |-> 0],
     [cpu |-> Centi(95), net_latency_ms |-> Centi(600), error_rate |-> 900]}
ProbePods == {None, Some(<<[name |-> "workload-a", status |-> "running"]>>)}
\* Both queries failed, or one of them failed and the other answered a high value.
ProbeBacklogs ==
    {[size |-> None, age |-> None],
     [size |-> None, age |-> Some(61)],
     [size |-> Some(1001), age |-> None]}
ProbeScaleApis == {"ok", "patch_fails"}

ProbeEnv(pods, backlog, scaleApi) ==
    [pods |-> pods, memApi |-> "ok", listOk |-> TRUE, patchFails |-> {},
     lossListOk |-> TRUE, backlog |-> backlog, scaleApi |-> scaleApi]

ReceiveProbed ==
    \E m \in ProbeSamples, pods \in ProbePods, backlog \in ProbeBacklogs,
       api \in ProbeScaleApis :
        Callback(EventMsg("INFO", Some(m)), ProbeEnv(pods, backlog, api))

ReceiveMalformed ==
    \E msg \in {Undecodable, EventMsg("INFO", None), EventMsg("INFO", Some(JsonNull)),
                EventMsg("CRITICAL", None)} :
        Callback(msg, ShortEnv("ok"))

NextProbe == ReceiveProbed \/ ReceiveMalformed
SpecProbe == Init /\ [][NextProbe]_vars

\* C15: every message handed to callback is acknowledged exactly once, on every
\* path: undecodable bytes, a CRITICAL event, an event without metrics, a metrics
\* event (whatever fails while deciding or scaling) and an exception.
C15_AckedExactlyOnce == cbLog.called => cbLog.acks = 1

\* A message whose handling raised (metrics that are not a dictionary) right after a
\* metrics event whose replica patch was rejected: one acknowledgement.
C15_Witness ==
    /\ cbLog.called
    /\ cbLog.path = "raised"
    /\ cbLog.acks = 1
    /\ scaleLog = NoCall
    /\ Len(metrics_window) >= 3

\* C16: a failed backlog query (monitoring API error, missing series) is reported as
\* 0, so a failed size query never gives the decision "Backlog high", a failed age
\* query never gives "Message age high", and a probe that failed altogether reports
\* backlog_size = 0 and oldest_message_age = 0.
C16_FailedProbeNeverScalesUp ==
    (cbLog.called /\ cbLog.backlog # None) =>
        LET obs == cbLog.backlog[1]
            b   == get_backlog_stats(obs)
        IN  /\ obs.size = None =>
                (b.backlog_size = 0 /\ cbLog.decision.reason # "Backlog high")
            /\ obs.age = None =>
                (b.oldest_message_age = 0 /\ cbLog.decision.reason # "Message age high")

\* Both queries failed while the window was light: should_scale went on to the
\* composite rule and decided to scale down.
C16_Witness ==
    /\ cbLog.called
    /\ cbLog.backlog = Some([size |-> None, age |-> None])
    /\ cbLog.health = "healthy"
    /\ cbLog.decision = Decision(Some("down"), "Low load")

\* C18: when check_pod_health itself fails (its result is "unknown"), should_scale
\* makes no scale decision for that event, whatever the node health, the backlog and
\* the composite score are.
C18_UnknownHealthNoDecision ==
    (cbLog.called /\ cbLog.health = "unknown") => cbLog.decision.action = None

-----------------------------------------------------------------------------
(***************************************************************************)
(* Properties of execute_scale when the cluster API fails.                 *)
(***************************************************************************)
\* C17: when the patch of the replica count fails, execute_scale returns False and
\* leaves last_scale_time (and the replica count) unchanged, so that a call without
\* bypass_cooldown made right afterwards is rejected by the cooldown only if the
\* failed call would have been.
C17_FailedPatchStartsNoCooldown ==
    (scaleLog.called /\ scaleLog.api = "patch_fails") =>
        /\ ~scaleLog.ret
        /\ last_scale_time = scaleLog.lastBefore
        /\ replicas = scaleLog.replicasBefore
        /\ ~CooldownRejects(FALSE, scaleLog.lastBefore, scaleLog.at)
             => ~CooldownRejects(FALSE, last_scale_time, now)

\* A scale-up that passed the cooldown check 60 s after the last success, computed a
\* new count and had its patch rejected.
C17_Witness ==
    /\ scaleLog.called
    /\ scaleLog.api = "patch_fails"
    /\ scaleLog.action = "up"
    /\ ~scaleLog.bypass_cooldown
    /\ scaleLog.lastBefore # None
    /\ scaleLog.at - scaleLog.lastBefore[1] = COOLDOWN_SECONDS
    /\ scaleLog.written # CurrentReplicas(scaleLog.replicasBefore)
    /\ ~scaleLog.ret
    /\ last_scale_time = scaleLog.lastBefore

-----------------------------------------------------------------------------
(***************************************************************************)
(* The node-pool scaler on an idle cluster: check_and_scale decides to     *)
(* scale down and scale_down cordons, taints, drains, waits and resizes,   *)
(* while the cluster API fails here and there.                             *)
(***************************************************************************)
MaxTimeDrain == 210    \* the clock of the idle-cluster specification stops here

\* The pods of the node picked: of a DaemonSet, of kube-system, of the workload.
DrainPodLists ==
    {<<>>,
     <<NodePod("workload-a", "default", {"ReplicaSet"}),
       NodePod("node-agent", "monitoring", {"DaemonSet"}),
       NodePod("kube-dns", "kube-system", {"ReplicaSet"}),
       NodePod("workload-b", "default", {})>>,
     <<NodePod("kube-proxy", "kube-system", {"DaemonSet"}),
       NodePod("workload-b", "default", {"ReplicaSet"})>>}

IdleLoad == NodeLoad(20, 20, 20, 20)

DrainTickSteps == {180}
TickDrain ==
    \E d \in DrainTickSteps :
        /\ now + d <= MaxTimeDrain
        /\ now' = now + d
        /\ nsLog' = NoNsCall
        /\ UNCHANGED <<aggVars, scaleVars, memVars, monVars, cbVars, thrVars, pool,
                       ns_last_scale_time>>

\* The answers are enumerated when the call decides to scale down, and held at one
\* value when it does not and asks nothing.
CallCheckAndScaleIdle ==
    LET metrics == get_node_metrics(TRUE, IdleLoad, pool)
        down    == should_scale_down(metrics, ns_last_scale_time, now)
    IN  \E cordonOk \in IF down THEN BOOLEAN ELSE {TRUE},
           taintOk \in IF down THEN BOOLEAN ELSE {TRUE},
           gkeOk \in IF down THEN BOOLEAN ELSE {TRUE},
           listed \in IF down THEN {Some(l) : l \in DrainPodLists} \cup {None}
                      ELSE {None},
           deleteFails \in IF down THEN {{}, {"workload-a"}} ELSE {{}} :
            /\ now + DrainWaitSeconds <= MaxTimeDrain
            /\ CheckAndScale(NsObs(TRUE, IdleLoad, 0, TRUE, cordonOk /\ taintOk, FALSE,
                                   gkeOk),
                             DrainObs(cordonOk, taintOk, listed, deleteFails))

NextDrain == TickDrain \/ CallCheckAndScaleIdle
SpecDrain == InitNode /\ [][NextDrain]_vars

\* The positions of the calls named op in the steps of the last scale_down.
StepsOf(op) == {i \in 1..Len(nsLog.steps) : nsLog.steps[i].op = op}

\* C19: on a scale-down the resize request is issued only after, in this order, the
\* node was patched unschedulable, the draining taint was added, the node's
\* evictable pods were deleted and the 30 s wait elapsed; and no pod is deleted from
\* a node that has not been made unschedulable.
C19_ResizeAfterCordonTaintDrainWait ==
    (nsLog.called /\ nsLog.action = "scale_down") =>
        /\ \A r \in StepsOf("set_node_pool_size") :
             \E c \in StepsOf("patch_unschedulable"), t \in StepsOf("add_draining_taint"),
                w \in StepsOf("sleep") :
                /\ c < t /\ t < w /\ w < r
                /\ nsLog.steps[c].ok
                /\ nsLog.steps[t].ok
                /\ nsLog.steps[w].num = DrainWaitSeconds
                /\ \A d \in StepsOf("delete_pod") : t < d /\ d < w /\ nsLog.steps[d].ok
                /\ nsLog.listed # None
        /\ \A d \in StepsOf("delete_pod") :
             \E c \in StepsOf("patch_unschedulable") : c < d /\ nsLog.steps[c].ok

\* The names of the pods the last drain listed that are neither of a DaemonSet nor in
\* kube-system.
Evictable ==
    IF nsLog.listed = None THEN {}
    ELSE {nsLog.listed[1][i].name : i \in {j \in 1..Len(nsLog.listed[1]) :
              /\ ~is_daemonset_pod(nsLog.listed[1][j])
              /\ nsLog.listed[1][j].namespace # "kube-system"}}

\* C20: draining a node never deletes a pod owned by a DaemonSet nor a pod in
\* kube-system; every other pod listed on the node gets one delete request with a
\* 30 s grace period, also after the delete of another pod failed.
C20_DrainDeletesEvictablePodsOnly ==
    (nsLog.called /\ nsLog.action = "scale_down") =>
        /\ \A d \in StepsOf("delete_pod") :
             /\ nsLog.steps[d].pod \in Evictable
             /\ nsLog.steps[d].num = 30
        /\ \A name \in Evictable :
             Cardinality({d \in StepsOf("delete_pod") : nsLog.steps[d].pod = name}) = 1

\* A node with a DaemonSet pod, a kube-system pod and two workload pods, the delete
\* of the first workload pod failing: the second one is deleted all the same, the
\* other two are left alone.
C20_Witness ==
    /\ nsLog.called /\ nsLog.action = "scale_down"
    /\ nsLog.listed # None
    /\ Len(nsLog.listed[1]) = 4
    /\ Evictable = {"workload-a", "workload-b"}
    /\ \E a, b \in StepsOf("delete_pod") :
         /\ a < b
         /\ nsLog.steps[a].pod = "workload-a" /\ ~nsLog.steps[a].ok
         /\ nsLog.steps[b].pod = "workload-b" /\ nsLog.steps[b].ok
    /\ Cardinality(StepsOf("delete_pod")) = 2

-----------------------------------------------------------------------------
(***************************************************************************)
(* autoscaler.py: the two background loops.  An iteration is the body of   *)
(* `while True` up to its time.sleep; the exception an iteration may raise *)
(* is raised after the call the body makes has returned.                   *)
(***************************************************************************)
MaxTimeLoops == 120

HealthSleepSeconds == 30
HealthErrorSleepSeconds == 60
ScalerSleepSeconds == 120

\* The time.sleep that ends an iteration: the one of the except clause after an
\* exception, the one of the try body otherwise.
SleepSeconds(l, raised) ==
    IF l = "node_health"
    THEN IF raised THEN HealthErrorSleepSeconds ELSE HealthSleepSeconds
    ELSE ScalerSleepSeconds

\* A loop whose except clause is missing: the exception leaves the function.
AfterIterationUncaught(l, raised) ==
    LoopAt(now + SleepSeconds(l, raised), ~loops[l].phase, raised, loops[l].raised, raised)

\* while True: try: ... time.sleep(..) except Exception: ... time.sleep(..)
AfterIteration(l, raised) ==
    LoopAt(now + SleepSeconds(l, raised), ~loops[l].phase, raised, loops[l].raised, FALSE)

LoopRuns(l) == ~loops[l].ended /\ now >= loops[l].wake

\* One iteration of background_node_health_check.
HealthLoopIteration(raises, listOk, scaleApi) ==
    LET listed == IF listOk THEN Some(clusterNodes) ELSE None
        out    == CheckOutcome(listed, {}, nodes, unhealthy_nodes, quarantined_nodes, now)
        nh     == out.result
        loss   == CapacityLoss(listed, out.unhealthy)
        scales == /\ ~raises
                  /\ nh.not_ready_nodes # {}
                  /\ nh.healthy_nodes # 0
                  /\ LossAboveThreshold(loss)
        es     == ExecuteScaleOutcome("up", TRUE, NODE_FAILURE_SCALE_MULTIPLIER, scaleApi,
                                      replicas, last_scale_time, now)
    IN  /\ LoopRuns("node_health")
        /\ unhealthy_nodes' = out.unhealthy
        /\ quarantined_nodes' = out.quarantined
        /\ nodes' = out.view
        /\ monLog' = MonCallRecord(listed, {}, out)
        /\ replicas' = IF scales THEN es.replicas ELSE replicas
        /\ last_scale_time' = IF scales THEN es.last_scale_time ELSE last_scale_time
        /\ lastSuccess' = IF scales /\ es.patched
                          THEN Some([at |-> now, bypass_cooldown |-> TRUE])
                          ELSE lastSuccess
        /\ scaleLog' = IF scales
                       THEN CallRecord("up", TRUE, NODE_FAILURE_SCALE_MULTIPLIER, scaleApi, es)
                       ELSE NoCall
        /\ loops' = [loops EXCEPT !["node_health"] = AfterIteration("node_health", raises)]
        /\ nsLog' = NoNsCall
        /\ UNCHANGED <<now, aggVars, memVars, cbVars, threads, pool, ns_last_scale_time,
                       clusterNodes>>

\* One iteration of background_node_autoscaling.  The cluster is never idle, so that
\* check_and_scale never drains a node.
ScalerLoopIteration(raises, obs) ==
    LET drain == StandardDrain(TRUE)
        out   == CheckAndScaleOutcome(obs, pool, ns_last_scale_time, now)
    IN  /\ LoopRuns("node_autoscaling")
        /\ out.action # "scale_down"
        /\ pool' = out.pool
        /\ ns_last_scale_time' = out.last
        /\ nsLog' = NsCallRecord(obs, drain, out)
        /\ loops' = [loops EXCEPT !["node_autoscaling"] =
                        AfterIteration("node_autoscaling", raises)]
        /\ scaleLog' = NoCall
        /\ monLog' = NoMonCall
        /\ UNCHANGED <<now, aggVars, memVars, cbVars, threads, replicas, last_scale_time,
                       lastSuccess, clusterNodes, nodes, unhealthy_nodes,
                       quarantined_nodes>>

LoopTickSteps == {30}
TickLoops ==
    \E d \in LoopTickSteps :
        /\ now + d <= MaxTimeLoops
        /\ now' = now + d
        /\ scaleLog' = NoCall
        /\ monLog' = NoMonCall
        /\ nsLog' = NoNsCall
        /\ UNCHANGED <<aggVars, memVars, cbVars, thrVars, replicas, last_scale_time,
                       lastSuccess, clusterNodes, nodes, unhealthy_nodes,
                       quarantined_nodes, pool, ns_last_scale_time>>

\* The cluster API answers every call of the loops.
RunHealthLoop ==
    \E raises \in BOOLEAN : HealthLoopIteration(raises, TRUE, "ok")

\* The cluster is busy.
RunScalerLoop ==
    \E raises \in BOOLEAN :
        ScalerLoopIteration(raises, NsObs(TRUE, NodeLoad(85, 50, 85, 85), 0, TRUE, TRUE,
                                          FALSE, TRUE))

NextLoops == TickLoops \/ RunHealthLoop \/ RunScalerLoop

\* The first node is Ready, or has just stopped being Ready.
InitLoops ==
    /\ now = 0 /\ InitAgg /\ InitScale /\ InitMem /\ InitCb /\ InitRest
    /\ clusterNodes = Nodes
    /\ \E ready \in BOOLEAN :
          nodes = [n \in Nodes |-> NodeView(n # "n1" \/ ready, FALSE, FALSE)]
    /\ unhealthy_nodes = [n \in Nodes |-> None]
    /\ quarantined_nodes = {}
    /\ monLog = NoMonCall

SpecLoops == InitLoops /\ [][NextLoops]_vars

\* Time passes, and each thread that can run its loop eventually runs it.
SpecLoopsFair ==
    /\ SpecLoops
    /\ WF_vars(TickLoops) /\ WF_vars(RunHealthLoop) /\ WF_vars(RunScalerLoop)

\* C21: an exception raised in an iteration of either background loop never ends the
\* loop: the loop sleeps and, when its sleep ends within the time modelled, runs
\* another iteration.
C21_LoopsSurviveExceptions ==
    /\ [](\A l \in BackgroundLoops : ~loops[l].ended)
    /\ \A l \in BackgroundLoops : \A b \in BOOLEAN :
          (loops[l].raised /\ loops[l].phase = b /\ loops[l].wake <= MaxTimeLoops)
              ~> (loops[l].phase # b)

\* Each loop has run an iteration after one that raised, and is asleep again.
C21_Witness ==
    \A l \in BackgroundLoops :
        loops[l].resumed /\ ~loops[l].ended /\ now < loops[l].wake

-----------------------------------------------------------------------------
(***************************************************************************)
(* should_scale(stats, critical) called directly, on the stats of a window *)
(* and with the cluster answering its probes in every way.                 *)
(***************************************************************************)
DecideSample(cpu, latency) ==
    [cpu |-> Centi(cpu), net_latency_ms |-> Centi(latency), error_rate |-> 0]

\* Two samples only; three light, three moderate and three heavy samples.
DecideWindows ==
    {<<SampleOf(DecideSample(20, 100)), SampleOf(DecideSample(20, 100))>>,
     [i \in 1..3 |-> SampleOf(DecideSample(20, 100))],
     [i \in 1..3 |-> SampleOf(DecideSample(60, 300))],
     [i \in 1..3 |-> SampleOf(DecideSample(95, 600))]}

DecidePods ==
    {None} \cup {Some(<<[name |-> "workload-a", status |-> st]>>) :
                    st \in {"running", "oom_running", "crashloop"}}

\* Each metric below, at and above its threshold.
DecideBacklogs ==
    {[size |-> Some(0), age |-> Some(0)],
     [size |-> Some(BACKLOG_SIZE_HIGH), age |-> Some(OLDEST_MESSAGE_AGE_HIGH)],
     [size |-> Some(BACKLOG_SIZE_HIGH + 1), age |-> Some(0)],
     [size |-> Some(BACKLOG_SIZE_HIGH), age |-> Some(OLDEST_MESSAGE_AGE_HIGH + 1)]}

DecideEnv(pods, lossListOk, backlog) ==
    [pods |-> pods, memApi |-> "ok", listOk |-> TRUE, patchFails |-> {},
     lossListOk |-> lossListOk, backlog |-> backlog, scaleApi |-> "ok"]

\* One whole should_scale(stats, critical) call: its decision, and what its probes
\* wrote on the way.
ShouldScale(stats, critical, env) ==
    \E d \in {should_scale(stats, critical, env,
                           PodState(crash_loop_pods, oom_history, adjustment_history,
                                    memLimit),
                           nodes, unhealthy_nodes, quarantined_nodes, now)} :
        /\ crash_loop_pods' = d.pod.state.crash
        /\ oom_history' = d.pod.state.oomh
        /\ adjustment_history' = d.pod.state.adjh
        /\ memLimit' = d.pod.state.limit
        /\ memRequest' = IF d.pod.state.limit # memLimit THEN d.pod.state.limit
                         ELSE memRequest
        /\ memLog' = IF d.pod.adjust = None THEN NoMemCall @@ [op |-> "none"]
                     ELSE d.pod.adjust[1] @@ [op |-> "adjust"]
        /\ IF d.mon = None
           THEN /\ monLog' = NoMonCall
                /\ UNCHANGED <<nodes, unhealthy_nodes, quarantined_nodes>>
           ELSE /\ unhealthy_nodes' = d.mon[1].out.unhealthy
                /\ quarantined_nodes' = d.mon[1].out.quarantined
                /\ nodes' = d.mon[1].out.view
                /\ monLog' = MonCallRecord(d.mon[1].listed, env.patchFails, d.mon[1].out)
        /\ ssLog' = SsRecord(stats, critical, d.pod.health,
                             IF d.mon = None THEN None ELSE Some(d.mon[1].out.result),
                             IF d.mon = None THEN None
                             ELSE Some(CapacityLoss(IF env.lossListOk THEN Some(clusterNodes)
                                                    ELSE None, d.mon[1].out.unhealthy)),
                             IF d.mon = None THEN None
                             ELSE Some(get_backlog_stats(env.backlog)),
                             d.decision)
        /\ UNCHANGED <<now, aggVars, scaleVars, thrVars, nsVars, clusterNodes,
                       metrics_window, cbLog, added>>

\* The pod of the workload may be seen crash-looping or OOM-killed this often.
MaxPodFailures == 3

PodFailuresSeen(pods) ==
    IF pods = None THEN 0
    ELSE IF pods[1][1].status = "crashloop" THEN crash_loop_pods["workload-a"]
    ELSE IF pods[1][1].status = "oom_running" /\ oom_history["workload-a"] # None
    THEN oom_history["workload-a"][1].count
    ELSE 0

\* The inputs a call does not read are held at one value.
CallShouldScale ==
    \E data \in DecideWindows :
      \E pods \in IF Len(data) < 3 THEN {None}
                  ELSE {p \in DecidePods : PodFailuresSeen(p) < MaxPodFailures} :
        \E probed \in {Len(data) >= 3 /\ (pods = None \/ pods[1][1].status = "running")} :
          \E critical \in IF probed THEN BOOLEAN ELSE {FALSE},
             lossListOk \in IF probed THEN BOOLEAN ELSE {TRUE},
             backlog \in IF probed THEN DecideBacklogs
                         ELSE {[size |-> Some(0), age |-> Some(0)]} :
            ShouldScale(get_stats(data), critical, DecideEnv(pods, lossListOk, backlog))

NextDecide == CallShouldScale

\* Both nodes are Ready, or the first one is not, or neither is.
InitDecide ==
    /\ now = 0 /\ InitAgg /\ InitScale /\ InitMem /\ InitCb /\ InitRest
    /\ clusterNodes = Nodes
    /\ \E down \in {{}, {"n1"}, Nodes} :
          nodes = [n \in Nodes |-> NodeView(n \notin down, FALSE, FALSE)]
    /\ unhealthy_nodes = [n \in Nodes |-> None]
    /\ quarantined_nodes = {}
    /\ monLog = NoMonCall

SpecDecide == InitDecide /\ [][NextDecide]_vars

\* The outcome of the rules of should_scale taken in their order, from what the
\* probes of the call answered.
FirstMatchingRule(r) ==
    IF r.stats.count < 3 THEN None
    ELSE IF r.health = "unhealthy" THEN None
    ELSE IF r.health = "oom" THEN Some("up")
    ELSE IF r.nh[1].not_ready_nodes # {} /\ r.nh[1].healthy_nodes = 0 THEN None
    ELSE IF r.nh[1].not_ready_nodes # {} /\ 4 * r.loss[1].num > r.loss[1].den
    THEN Some("up")
    ELSE IF r.backlog[1].backlog_size > 1000 THEN Some("up")
    ELSE IF r.backlog[1].oldest_message_age > 60 THEN Some("up")
    ELSE IF r.critical THEN Some("up")
    ELSE CompositeDecision(r.stats).action

\* C22: should_scale returns the outcome of the first rule that matches, in the order
\* (1) fewer than 3 samples: no action; (2) pods unhealthy: no action, oom: up;
\* (3) a node not ready and no healthy node: no action, capacity loss > 0.25: up;
\* (4) backlog_size > 1000: up, oldest age > 60: up; (5) critical: up; (6) the
\* composite rules.
C22_FirstMatchingRuleDecides ==
    ssLog.called => ssLog.decision.action = FirstMatchingRule(ssLog)

\* A critical call decided by rule 5: a node is not ready but the capacity loss is not
\* above the threshold, and the backlog is exactly at both thresholds.
C22_Witness ==
    /\ ssLog.called
    /\ ssLog.critical
    /\ ssLog.decision = Decision(Some("up"), "Critical event")
    /\ ssLog.nh[1].not_ready_nodes # {}
    /\ ssLog.backlog[1] = [backlog_size |-> BACKLOG_SIZE_HIGH,
                           oldest_message_age |-> OLDEST_MESSAGE_AGE_HIGH]
    /\ CompositeDecision(ssLog.stats).action = Some("down")

-----------------------------------------------------------------------------
(***************************************************************************)
(* The replica step: metrics events that make should_scale decide in each  *)
(* of its ways, on a workload with any replica count.                      *)
(***************************************************************************)
StepSample == [cpu |-> Centi(20), net_latency_ms |-> Centi(100), error_rate |-> 0]
StepPods ==
    {Some(<<[name |-> "workload-a", status |-> st]>>) : st \in {"running", "oom_running"}}
StepBacklogs == {[size |-> Some(0), age |-> Some(0)], [size |-> Some(1001), age |-> Some(0)]}
StepEnv(pods, backlog) ==
    [pods |-> pods, memApi |-> "ok", listOk |-> TRUE, patchFails |-> {},
     lossListOk |-> TRUE, backlog |-> backlog, scaleApi |-> "ok"]

ReceiveStep ==
    \E pods \in StepPods, backlog \in StepBacklogs :
        /\ \A p \in Pods : oom_history[p] # None => oom_history[p][1].count < MaxOomIngress
        /\ Callback(EventMsg("INFO", Some(StepSample)), StepEnv(pods, backlog))

NextStep == ReceiveStep \/ NodeFails

\* The workload has any replica count somebody may have set.
InitStep ==
    /\ now = 0 /\ InitAgg /\ InitMem /\ InitMon /\ InitCb /\ InitRest
    /\ replicas \in 0..MaxReplicasRead
    /\ last_scale_time = None
    /\ lastSuccess = None
    /\ scaleLog = NoCall

SpecStep == InitStep /\ [][NextStep]_vars

\* The call of scaleLog got as far as computing the new replica count.
ComputedNew ==
    /\ scaleLog.called
    /\ scaleLog.api # "read_fails"
    /\ ~CooldownRejects(scaleLog.bypass_cooldown, scaleLog.lastBefore, scaleLog.at)

\* The replica count the call worked from: the one read, MIN_REPLICAS when none is set.
CurrentOfCall == IF scaleLog.replicasBefore = 0 THEN MIN_REPLICAS ELSE scaleLog.replicasBefore

\* The multiplier of the callback's call: 2 for an OOM decision, 1.5 for a node
\* failure decision, 1 otherwise (in tenths).
IngressMultiplierAsStated ==
    (cbLog.called /\ cbLog.path = "metrics" /\ cbLog.scaled) =>
        scaleLog.multiplier = (IF cbLog.decision.reason = "OOM detected" THEN 20
                               ELSE IF cbLog.decision.reason = "Node failure" THEN 15
                               ELSE 10)

RejectedWhenUnchanged ==
    scaleLog.written = CurrentOfCall =>
        (~scaleLog.patched /\ ~scaleLog.ret /\ replicas = scaleLog.replicasBefore)

\* C23: a scale-up computes new = min(R_max, current + inc), where inc is
\* max(1, floor(current*(m-1))) when m > 1 and 1 otherwise; a scale-down computes
\* new = max(R_min, current - 1); when new = current the call is rejected without
\* patching; the callback uses m = 2 for an OOM decision, 1.5 for a node failure
\* decision and 1 otherwise.  current is the count read, R_min when none is set.
C23_ReplicaStep ==
    ComputedNew =>
        LET current == CurrentOfCall
            m       == scaleLog.multiplier
            inc     == IF m > 10 THEN Max2(1, (current * (m - 10)) \div 10) ELSE 1
        IN  /\ scaleLog.written = (IF scaleLog.action = "up"
                                   THEN Min2(8, current + inc)
                                   ELSE Max2(2, current - 1))
            /\ RejectedWhenUnchanged
            /\ IngressMultiplierAsStated

\* C23 as stated: with m not above 1 a scale-up computes current + 1, whatever
\* R_max is.
C23_ReplicaStepAsStated ==
    ComputedNew =>
        LET current == CurrentOfCall
            m       == scaleLog.multiplier
            inc     == Max2(1, (current * (m - 10)) \div 10)
        IN  /\ scaleLog.written = (IF scaleLog.action = "up"
                                   THEN IF m > 10 THEN Min2(8, current + inc)
                                        ELSE current + 1
                                   ELSE Max2(2, current - 1))
            /\ RejectedWhenUnchanged
            /\ IngressMultiplierAsStated

\* A node failure decision on 3 replicas, scaled by 1.5 to 4.
C23_Witness ==
    /\ ComputedNew
    /\ cbLog.called /\ cbLog.decision.reason = "Node failure"
    /\ scaleLog.multiplier = NODE_FAILURE_SCALE_MULTIPLIER
    /\ scaleLog.replicasBefore = 3
    /\ scaleLog.patched
    /\ replicas = 4

-----------------------------------------------------------------------------
(***************************************************************************)
(* CRITICAL events arriving among metrics events, node failures and OOM    *)
(* kills, on a workload with any replica count.                            *)
(***************************************************************************)
CriticalScaleApis == {"ok", "patch_fails"}

ReceiveCriticalAmong ==
    \E api \in CriticalScaleApis, metrics \in {None, Some(StepSample)} :
        Callback(EventMsg("CRITICAL", metrics), ShortEnv(api))

NextAmong == ReceiveStep \/ NodeFails \/ ReceiveCriticalAmong
SpecAmong == InitStep /\ [][NextAmong]_vars

CriticalHandled == cbLog.called /\ cbLog.msg.decodes /\ cbLog.msg.severity = "CRITICAL"

\* The callback called execute_scale("up", bypass_cooldown=True), which did not stop
\* at the cooldown.
CriticalAttemptsBypassingScaleUp ==
    /\ scaleLog.called
    /\ scaleLog.action = "up"
    /\ scaleLog.bypass_cooldown
    /\ scaleLog.replicasBefore = cbLog.replicasBefore
    /\ (scaleLog.api = "ok" /\ scaleLog.replicasBefore < MAX_REPLICAS) => scaleLog.patched

\* C24: for every CRITICAL event the callback attempts a scale-up with the cooldown
\* bypassed, whatever the window holds and whatever the state of pods, nodes and
\* backlog; when the workload has between 1 and R_max - 1 replicas and the patch
\* succeeds, the replica count rises by exactly 1.
C24_CriticalScalesUpByOne ==
    CriticalHandled =>
        /\ CriticalAttemptsBypassingScaleUp
        /\ (/\ scaleLog.patched
            /\ scaleLog.replicasBefore >= 1
            /\ scaleLog.replicasBefore < MAX_REPLICAS) =>
               replicas = scaleLog.replicasBefore + 1

\* C24 as stated: whenever replicas < R_max and the patch succeeds, the replica count
\* rises by exactly 1.
C24_CriticalScalesUpByOneAsStated ==
    CriticalHandled =>
        /\ CriticalAttemptsBypassingScaleUp
        /\ (scaleLog.patched /\ scaleLog.replicasBefore < MAX_REPLICAS) =>
               replicas = scaleLog.replicasBefore + 1

\* A CRITICAL event handled while the window holds three samples, a node is not
\* Ready and a scale action has just succeeded: one replica is added.
C24_Witness ==
    /\ CriticalHandled
    /\ Len(metrics_window) >= 3
    /\ ~nodes["n1"].ready
    /\ scaleLog.prevSuccess # None
    /\ scaleLog.at - scaleLog.prevSuccess[1].at < COOLDOWN_SECONDS
    /\ scaleLog.patched
    /\ replicas = scaleLog.replicasBefore + 1

-----------------------------------------------------------------------------
(***************************************************************************)
(* Properties of check_node_health: quarantine, draining nodes, capacity.  *)
(***************************************************************************)
\* The nodes the check listed that it found unhealthy and that had been recorded
\* unhealthy for longer than quarantine_threshold.
LongUnhealthy ==
    {n \in monLog.listed[1] :
        /\ ~NodeHealthy(monLog.seen[n])
        /\ monLog.unhealthyBefore[n] # None
        /\ now - monLog.unhealthyBefore[n][1] > quarantine_threshold}

\* C25: every node that has been unhealthy (not Ready, or unschedulable, without the
\* draining taint) for longer than quarantine_threshold is, at the next
\* check_node_health, patched unschedulable and added to the quarantined set; a node
\* whose patch fails is not added.
C25_LongUnhealthyNodesQuarantined ==
    (monLog.called /\ monLog.listed # None) =>
        \A n \in LongUnhealthy :
            IF n \in monLog.patchFails /\ n \notin monLog.quarantinedBefore
            THEN n \notin quarantined_nodes
            ELSE n \in quarantined_nodes /\ nodes[n].unschedulable

-----------------------------------------------------------------------------
(***************************************************************************)
(* The node monitor on a cluster whose nodes the node scaler marks for     *)
(* draining and the cloud removes.                                         *)
(***************************************************************************)
MaxTimeCluster == 301

ClusterTickSteps == {301}
TickCluster ==
    \E d \in ClusterTickSteps :
        /\ now + d <= MaxTimeCluster
        /\ now' = now + d
        /\ monLog' = NoMonCall
        /\ UNCHANGED <<aggVars, scaleVars, memVars, cbVars, thrVars, nsVars, clusterNodes,
                       nodes, unhealthy_nodes, quarantined_nodes>>

\* check_node_health and then get_node_capacity_loss, as background_node_health_check
\* and should_scale call them; both list_node calls answer.
CheckThenGetLoss(patchFails) ==
    LET listed == Some(clusterNodes)
        out    == CheckOutcome(listed, patchFails, nodes, unhealthy_nodes,
                               quarantined_nodes, now)
    IN  /\ unhealthy_nodes' = out.unhealthy
        /\ quarantined_nodes' = out.quarantined
        /\ nodes' = out.view
        /\ monLog' = [MonCallRecord(listed, patchFails, out)
                         EXCEPT !.loss = Some(CapacityLoss(listed, out.unhealthy))]
        /\ UNCHANGED <<now, aggVars, scaleVars, memVars, cbVars, thrVars, nsVars,
                       clusterNodes>>

\* node_scaler.py, scale_down: _cordon_node and _mark_node_draining on node n, each
\* patch succeeding or raising.
ScalerMarksNode(n, cordonOk, taintOk) ==
    /\ n \in clusterNodes
    /\ ~nodes[n].draining
    /\ cordonOk \/ taintOk
    /\ nodes' = [nodes EXCEPT ![n].unschedulable = @ \/ cordonOk,
                              ![n].draining = taintOk]
    /\ monLog' = NoMonCall
    /\ UNCHANGED <<now, aggVars, scaleVars, memVars, cbVars, thrVars, nsVars,
                   clusterNodes, unhealthy_nodes, quarantined_nodes>>

\* The cloud removes node n from the cluster.
NodeLeaves(n) ==
    /\ n \in clusterNodes
    /\ clusterNodes' = clusterNodes \ {n}
    /\ monLog' = NoMonCall
    /\ UNCHANGED <<now, aggVars, scaleVars, memVars, cbVars, thrVars, nsVars,
                   nodes, unhealthy_nodes, quarantined_nodes>>

CallCheckThenGetLoss == \E patchFails \in {{}, Nodes} : CheckThenGetLoss(patchFails)
ScalerMarks == \E cordonOk \in BOOLEAN, taintOk \in BOOLEAN : ScalerMarksNode("n1", cordonOk, taintOk)
FirstNodeLeaves == NodeLeaves("n1")

NextCluster == TickCluster \/ CallCheckThenGetLoss \/ NodeFlips \/ ScalerMarks \/ FirstNodeLeaves
SpecCluster == Init /\ [][NextCluster]_vars

\* The listed nodes that carried the draining taint when the check looked.
DrainingSeen == {n \in monLog.listed[1] : monLog.seen[n].draining}

\* C26: a node that carries the taint node-scaler.pulse/draining at a
\* check_node_health counts as healthy, unschedulable or not: the check does not list
\* it in not_ready_nodes, does not record it unhealthy and does not quarantine it.
C26_DrainingNodeCountsHealthy ==
    (monLog.called /\ monLog.listed # None) =>
        /\ \A n \in DrainingSeen :
              /\ n \notin monLog.result.not_ready_nodes
              /\ unhealthy_nodes[n] = None
              /\ n \notin quarantined_nodes \ monLog.quarantinedBefore
        /\ monLog.result.healthy_nodes >= Cardinality(DrainingSeen)

\* A node that is not Ready, was recorded unhealthy more than quarantine_threshold
\* ago and has since been cordoned and tainted by the scaler is checked.
C26_Witness ==
    /\ monLog.called /\ monLog.listed # None
    /\ "n1" \in DrainingSeen
    /\ monLog.seen["n1"].unschedulable
    /\ ~monLog.seen["n1"].ready
    /\ monLog.unhealthyBefore["n1"] # None
    /\ now - monLog.unhealthyBefore["n1"][1] > quarantine_threshold
    /\ monLog.patchFails = {}

\* C27: get_node_capacity_loss returns the number of nodes of the cluster that are
\* unhealthy divided by the number of nodes of the cluster, 0 when there are none, a
\* value in [0, 1], also after nodes recorded unhealthy have left the cluster.
C27_CapacityLossIsUnhealthyShare ==
    (monLog.called /\ monLog.listed # None /\ monLog.loss # None) =>
        LET loss == monLog.loss[1]
            res  == monLog.result
        IN  /\ loss.num <= loss.den
            /\ IF res.total_nodes = 0 THEN loss.num = 0
               ELSE loss.num * res.total_nodes
                       = Cardinality(res.not_ready_nodes) * loss.den

-----------------------------------------------------------------------------
(***************************************************************************)
(* Properties of adjust_memory_limits and record_oom_event.                *)
(***************************************************************************)
\* The limit an adjust_memory_limits call worked from: the one read, 256Mi when
\* the container has none.
LimitOfCall == IF memLog.read = None THEN MemStr(256, "Mi") ELSE memLog.read[1]

StatedSuffixes == {"Ki", "Mi", "Gi", "K", "M", "G"}

\* C28: from a limit below the 2Gi cap, adjust_memory_limits writes
\* min(2Gi, 1.5 x current) to both limits.memory and requests.memory; a limit with
\* any of the suffixes Ki, Mi, Gi, K, M, G is accepted.
C28_AdjustWritesOneAndAHalfTimes ==
    (memLog.op = "adjust" /\ memLog.api = "ok") =>
        /\ LimitOfCall.suffix \in StatedSuffixes => memLog.old # None
        /\ memLog.patched =>
              /\ 2 * parse_memory(memLimit[1])
                    = Min2(2 * parse_memory(max_memory), 3 * parse_memory(LimitOfCall))
              /\ memRequest = memLimit

\* C29: a call that finds the limit at or above the 2Gi cap returns
\* (current, current), sends no patch and leaves limits, requests and the
\* adjustment record as they were.  (The clock stands still during a call.)
C29_AtCapIsNoOp ==
    [][(/\ memLog'.op = "adjust"
        /\ now' = now
        /\ memLog'.api # "read_fails"
        /\ memLimit # None
        /\ ~ParseRaises(memLimit[1])
        /\ parse_memory(memLimit[1]) >= parse_memory(max_memory))
       => (/\ memLog'.old = memLimit
           /\ memLog'.new = memLimit
           /\ ~memLog'.patched
           /\ ~memLog'.ok
           /\ memLimit' = memLimit
           /\ memRequest' = memRequest
           /\ adjustment_history' = adjustment_history)]_vars

\* A call at the cap, 300 s after the adjustment that reached the cap: nothing is
\* patched and the record still holds the earlier adjustment.
C29_Witness ==
    /\ memLog.op = "adjust"
    /\ memLog.api = "ok"
    /\ memLog.read = Some(max_memory)
    /\ memLog.old = memLog.read /\ memLog.new = memLog.read
    /\ ~memLog.patched
    /\ adjustment_history # None
    /\ memLog.at - adjustment_history[1].last_adjustment >= cooldown_seconds

-----------------------------------------------------------------------------
(***************************************************************************)
(* record_oom_event called for two pods, ten minutes or just over an hour  *)
(* apart.                                                                  *)
(***************************************************************************)
MaxTimeOom == 4801

OomTickSteps == {600, 3600, 3601}
TickOom ==
    \E d \in OomTickSteps :
        /\ now + d <= MaxTimeOom
        /\ now' = now + d
        /\ UNCHANGED <<aggVars, scaleVars, memVars, monVars, cbVars, thrVars, nsVars>>

NextOom == TickOom \/ CallRecordOom
SpecOom == Init /\ [][NextOom]_vars

\* C30: the counter of a pod is 1 after its first record_oom_event and after one made
\* more than an hour after the previous one, and one more than before otherwise; the
\* call returns true exactly when the counter is at least oom_threshold = 2.
C30_OomCounter ==
    [][\A p \in Pods :
          oom_history'[p] # oom_history[p] =>
              /\ oom_history'[p] # None
              /\ oom_history'[p][1].last_seen = now
              /\ oom_history'[p][1].count =
                    (IF oom_history[p] = None THEN 1
                     ELSE IF now - oom_history[p][1].last_seen > 3600 THEN 1
                     ELSE oom_history[p][1].count + 1)
              /\ memLog'.op = "record_oom"
              /\ memLog'.ok = (oom_history'[p][1].count >= 2)]_vars

\* The second OOM kill of a pod ten minutes after its first, which was recorded just
\* over an hour after an earlier one: the counter is 2 and the call returned true.
C30_Witness ==
    /\ memLog.op = "record_oom"
    /\ memLog.ok
    /\ memLog.at = 3601 + 600
    /\ oom_history["workload-a"] # None
    /\ oom_history["workload-a"][1] = [count |-> 2, last_seen |-> 3601 + 600]

-----------------------------------------------------------------------------
(***************************************************************************)
(* check_pod_health called again and again on pods that keep being        *)
(* OOM-killed, 100 s and 299 s apart.  memLog carries, besides the        *)
(* adjust_memory_limits call the check made, the time of the last          *)
(* successful patch before it (lastPatch).                                 *)
(***************************************************************************)
MaxTimeHealth == 700
MaxOomSeen    == 4     \* OOM kills recorded per pod in this specification

HealthPods ==
    {<<[name |-> "workload-a", status |-> "oom_running"]>>,
     <<[name |-> "workload-a", status |-> "running"],
       [name |-> "workload-b", status |-> "oom_running"]>>,
     <<[name |-> "workload-a", status |-> "running"]>>}

\* One whole check_pod_health call on the listed pods.
CheckPodHealth(pods, memApi) ==
    \E r \in {check_pod_health(Some(pods),
                               PodState(crash_loop_pods, oom_history, adjustment_history,
                                        memLimit),
                               memApi, now)} :
        /\ \A p \in Pods : r.state.oomh[p] # None => r.state.oomh[p][1].count <= MaxOomSeen
        /\ crash_loop_pods' = r.state.crash
        /\ oom_history' = r.state.oomh
        /\ adjustment_history' = r.state.adjh
        /\ memLimit' = r.state.limit
        /\ memRequest' = IF r.adjust # None /\ r.adjust[1].patched THEN r.state.limit
                         ELSE memRequest
        /\ memLog' = [op        |-> "check_pod_health",
                      health    |-> r.health,
                      adjust    |-> r.adjust,
                      patched   |-> r.adjust # None /\ r.adjust[1].patched,
                      at        |-> now,
                      lastPatch |-> IF memLog.patched THEN Some(memLog.at)
                                    ELSE memLog.lastPatch]
        /\ UNCHANGED <<now, aggVars, scaleVars, monVars, thrVars, nsVars,
                       metrics_window, cbLog, added, ssLog>>

HealthTickSteps == {100, 299}
TickHealth ==
    \E d \in HealthTickSteps :
        /\ now + d <= MaxTimeHealth
        /\ now' = now + d
        /\ UNCHANGED <<aggVars, scaleVars, memVars, monVars, cbVars, thrVars, nsVars>>

CallCheckPodHealth ==
    \E pods \in HealthPods :
      \E memApi \in IF \E i \in 1..Len(pods) : IsOomKilled(pods[i].status)
                    THEN ApiOutcomes ELSE {"ok"} :
        CheckPodHealth(pods, memApi)

InitHealth ==
    /\ now = 0 /\ InitAgg /\ InitScale /\ InitMon /\ InitCb /\ InitRest
    /\ memLimit = Some(MemStr(256, "Mi"))
    /\ memRequest = memLimit
    /\ oom_history = [p \in Pods |-> None]
    /\ adjustment_history = None
    /\ memLog = [op |-> "none", health |-> "none", adjust |-> None, patched |-> FALSE,
                 at |-> 0, lastPatch |-> None]

NextHealth == TickHealth \/ CallCheckPodHealth
SpecHealth == InitHealth /\ [][NextHealth]_vars

\* The time of the last successful patch up to and including the last call.
LastPatchSeen == IF memLog.patched THEN Some(memLog.at) ELSE memLog.lastPatch

\* C31: a pod health check that patches the memory limit does so at least 300 s
\* after the previous successful patch of the workload's limit, whatever OOM kills
\* were recorded in between.
C31_PatchesCooldownApart ==
    (memLog.op = "check_pod_health" /\ memLog.patched /\ memLog.lastPatch # None)
        => memLog.at - memLog.lastPatch[1] >= cooldown_seconds

\* A second patch exactly 300 s after the first, with OOM kills recorded and
\* rejected on the way.
C31_Witness ==
    /\ memLog.op = "check_pod_health" /\ memLog.patched
    /\ memLog.lastPatch = Some(memLog.at - 300)
    /\ \E p \in Pods : oom_history[p] # None /\ oom_history[p][1].count >= 4

-----------------------------------------------------------------------------
(***************************************************************************)
(* node_scaler.py: check_and_scale on per-node readings.  The Ready nodes  *)
(* of the pool are read one by one, at and around the thresholds of        *)
(* should_scale_up and should_scale_down; the calls are 89 s and 90 s or   *)
(* sums of these apart.  nsLog carries, besides the record of the call, the pods found   *)
(* unschedulable, the per-node readings, the time of the call, the node    *)
(* named for removal, and the times of the last recorded scale action      *)
(* before and after the call.                                              *)
(***************************************************************************)
MaxTimeThreshold == 270

\* One entry of metrics['nodes'].
NodeReading(name, cpu_percent, memory_percent) ==
    [name |-> name, cpu_percent |-> cpu_percent, memory_percent |-> memory_percent]

\* n nodes whose cpu_percent is c[1] on average, the first c[2] below and the second
\* c[2] above it, and whose memory_percent is m[1] on average, the first m[2] above
\* and the second m[2] below it.
ReadingsFor(n, c, m) ==
    [i \in 1..n |->
        NodeReading(i,
                    IF i = 1 THEN c[1] - c[2] ELSE IF i = 2 THEN c[1] + c[2] ELSE c[1],
                    IF i = 1 THEN m[1] + m[2] ELSE IF i = 2 THEN m[1] - m[2] ELSE m[1])]

CpuShapes == {<<20, 0>>, <<35, 0>>, <<35, 1>>, <<36, 16>>,
              <<80, 0>>, <<80, 10>>, <<80, 11>>, <<81, 0>>}
MemShapes == {<<20, 0>>, <<35, 25>>, <<36, 0>>, <<80, 0>>, <<81, 0>>}

\* The readings a pool of n Ready nodes can show: one node shows no spread.
ReadingsOf(n) ==
    {ReadingsFor(n, c, m) : c \in {s \in CpuShapes : n <= 1 => s[2] = 0},
                            m \in {s \in MemShapes : n <= 1 => s[2] = 0}}

\* sorted(metrics['nodes'], key=lambda x: x['cpu_percent'])[0]: the sort is stable,
\* so among the nodes of least cpu_percent the first listed comes first.
least_utilized(reads) ==
    reads[CHOOSE i \in 1..Len(reads) :
            \A j \in 1..Len(reads) :
                \/ reads[i].cpu_percent < reads[j].cpu_percent
                \/ (reads[i].cpu_percent = reads[j].cpu_percent /\ i <= j)]

\* What should_scale_up and should_scale_down read of the readings: avg_cpu and
\* avg_memory as get_node_metrics computes them, and the least and greatest cpu_percent.
LoadOf(reads) ==
    NodeLoad(SumSeq(Column(reads, "cpu_percent")) \div Len(reads),
             SumSeq(Column(reads, "memory_percent")) \div Len(reads),
             least_utilized(reads).cpu_percent,
             MaxSeq(Column(reads, "cpu_percent")))

IdleScalerLog(lastRecord) == NoNsCall @@ [lastRecord |-> lastRecord]

\* One whole check_and_scale call on the readings `reads`, whose load is `load`.
CheckAndScaleReading(reads, load, metricsOk, unschedulable, listOk, nodeApiOk, gkeOk) ==
    \E obs \in {NsObs(metricsOk, load, unschedulable, listOk, nodeApiOk, FALSE, gkeOk)} :
      \E out \in {CheckAndScaleOutcome(obs, pool, ns_last_scale_time, now)} :
        /\ now' = out.ends
        /\ pool' = out.pool
        /\ ns_last_scale_time' = out.last
        /\ nsLog' = NsCallRecord(obs, StandardDrain(nodeApiOk), out) @@
                    [unschedulable |-> unschedulable,
                     nodes         |-> IF metricsOk THEN reads ELSE <<>>,
                     at            |-> now,
                     named         |-> IF out.action = "scale_down"
                                       THEN Some(least_utilized(reads).name) ELSE None,
                     recordBefore  |-> nsLog.lastRecord,
                     lastRecord    |-> IF out.success THEN Some(out.ends)
                                       ELSE nsLog.lastRecord]
        /\ UNCHANGED <<aggVars, scaleVars, memVars, monVars, cbVars, thrVars>>

ThresholdTickSteps == {89, 90}
TickThreshold ==
    \E d \in ThresholdTickSteps :
        /\ now + d <= MaxTimeThreshold
        /\ now' = now + d
        /\ nsLog' = IdleScalerLog(nsLog.lastRecord)
        /\ UNCHANGED <<aggVars, scaleVars, memVars, monVars, cbVars, thrVars, pool,
                       ns_last_scale_time>>

\* The loop sleeps between two calls.  The answers that no step of the call reads
\* are held at one value.
CallCheckAndScaleReading ==
    /\ ~nsLog.called
    /\ now + DrainWaitSeconds <= MaxTimeThreshold
    /\ \E metricsOk \in BOOLEAN, unschedulable \in {0, 1} :
        \E reads \in IF metricsOk THEN ReadingsOf(pool.ready)
                     ELSE {ReadingsFor(pool.ready, <<20, 0>>, <<20, 0>>)} :
          \E load \in {LoadOf(reads)} :
            \E metrics \in {get_node_metrics(metricsOk, load, pool)} :
              \E up \in {should_scale_up(metrics, unschedulable, ns_last_scale_time, now)} :
                \E down \in {~up /\ should_scale_down(metrics, ns_last_scale_time, now)} :
                  \E listOk \in IF up \/ down THEN BOOLEAN ELSE {TRUE},
                     gkeOk \in IF up \/ down THEN BOOLEAN ELSE {TRUE},
                     nodeApiOk \in IF down THEN BOOLEAN ELSE {TRUE} :
                      CheckAndScaleReading(reads, load, metricsOk, unschedulable, listOk,
                                           nodeApiOk, gkeOk)

InitThreshold ==
    /\ now = 0 /\ InitAgg /\ InitScale /\ InitMem /\ InitMon /\ InitCb /\ InitThreads
    /\ \E n \in min_nodes..max_nodes : pool = Pool(n, n, 0, 0)
    /\ ns_last_scale_time = None
    /\ nsLog = IdleScalerLog(None)

NextThreshold == TickThreshold \/ CallCheckAndScaleReading
SpecThreshold == InitThreshold /\ [][NextThreshold]_vars

\* The cooldown as the last call found it: no scale action recorded, or 180 s or
\* more since the last one.
CooldownElapsedAtCall ==
    nsLog.recordBefore = None \/ nsLog.at - nsLog.recordBefore[1] >= 180

ScaleUpApplies ==
    /\ nsLog.metrics.node_count < 5
    /\ CooldownElapsedAtCall
    /\ \/ nsLog.unschedulable > 0
       \/ nsLog.metrics.avg_cpu_percent > 80
       \/ nsLog.metrics.avg_memory_percent > 80
       \/ \E i \in 1..Len(nsLog.nodes) : nsLog.nodes[i].cpu_percent > 90

\* C32: should_scale_up returns true, and check_and_scale scales up, exactly when the
\* node count of the metrics is below 5, the cooldown has elapsed, and a pod is
\* unschedulable, or the average cpu% or the average memory% is above 80, or some
\* node's cpu% is above 90; exactly 80 and exactly 90 do not trigger.
C32_ScaleUpCondition ==
    nsLog.called => ((nsLog.action = "scale_up") <=> ScaleUpApplies)

\* Scale-ups decided on each of the four grounds alone; here the one on a single
\* node at 91% cpu with the averages at 80.
C32_Witness ==
    /\ nsLog.called /\ nsLog.action = "scale_up"
    /\ nsLog.unschedulable = 0
    /\ nsLog.metrics.avg_cpu_percent = 80
    /\ nsLog.metrics.avg_memory_percent = 80
    /\ \E i \in 1..Len(nsLog.nodes) : nsLog.nodes[i].cpu_percent = 91

ScaleDownApplies ==
    /\ nsLog.metrics.node_count > 1
    /\ CooldownElapsedAtCall
    /\ nsLog.metrics.avg_cpu_percent <= 35
    /\ nsLog.metrics.avg_memory_percent <= 35
    /\ \E i \in 1..Len(nsLog.nodes) :
          /\ nsLog.nodes[i].cpu_percent < 35
          /\ \A j \in 1..Len(nsLog.nodes) :
                nsLog.nodes[i].cpu_percent <= nsLog.nodes[j].cpu_percent

\* C33: check_and_scale scales down exactly when no scale-up applies and the node
\* count is above 1, the cooldown has elapsed, the average cpu% and the average
\* memory% are at most 35 and the node of least cpu% is below 35; the node named for
\* removal is a node of least cpu%, whatever its memory%; and a call scales up or
\* down or does nothing, with at most one resize request.
C33_ScaleDownCondition ==
    nsLog.called =>
        /\ (nsLog.action = "scale_down") <=> (~ScaleUpApplies /\ ScaleDownApplies)
        /\ nsLog.action \in {"scale_up", "scale_down", "no_action"}
        /\ Cardinality(StepsOf("set_node_pool_size")) <= 1
        /\ nsLog.action = "scale_up" => nsLog.steps = <<>> /\ nsLog.named = None
        /\ nsLog.action = "scale_down" =>
              \E i \in 1..Len(nsLog.nodes) :
                  /\ nsLog.named = Some(nsLog.nodes[i].name)
                  /\ \A j \in 1..Len(nsLog.nodes) :
                        nsLog.nodes[i].cpu_percent <= nsLog.nodes[j].cpu_percent

\* A scale-down with the averages at exactly 35 that names the node at 34% cpu,
\* whose memory is at 60%.
C33_Witness ==
    /\ nsLog.called /\ nsLog.action = "scale_down"
    /\ nsLog.metrics.avg_cpu_percent = 35
    /\ nsLog.metrics.avg_memory_percent = 35
    /\ \E i \in 1..Len(nsLog.nodes) :
          /\ nsLog.named = Some(nsLog.nodes[i].name)
          /\ nsLog.nodes[i].cpu_percent = 34
          /\ nsLog.nodes[i].memory_percent = 60

\* C34: a check_and_scale that scales up or down, successfully or not, is made 180 s
\* or more after the last scale action the scaler recorded, whatever the readings
\* and the unschedulable pods.
C34_NoScaleActionInCooldown ==
    (nsLog.called /\ nsLog.action \in {"scale_up", "scale_down"}
                  /\ nsLog.recordBefore # None)
        => nsLog.at - nsLog.recordBefore[1] >= cooldown_minutes * 60

\* A call 179 s after a recorded scale-down that does nothing although a pod is
\* unschedulable.
CooldownHoldsSeen ==
    /\ nsLog.called /\ nsLog.action = "no_action"
    /\ nsLog.unschedulable > 0
    /\ nsLog.metrics.node_count < max_nodes
    /\ nsLog.recordBefore # None
    /\ nsLog.at - nsLog.recordBefore[1] = 179

\* A scale action exactly 180 s after the one recorded before it.
C34_Witness ==
    /\ nsLog.called /\ nsLog.action \in {"scale_up", "scale_down"}
    /\ nsLog.recordBefore # None
    /\ nsLog.at - nsLog.recordBefore[1] = 180

-----------------------------------------------------------------------------
(***************************************************************************)
(* metrics_window.py: the trend of get_stats, over windows whose cpu       *)
(* samples lie 10, 20 and 21 apart.                                        *)
(***************************************************************************)
TrendMetrics == {[cpu |-> Centi(c)] : c \in {20, 30, 40, 41}}

AddTrendSample == \E m \in TrendMetrics : Add(m)

NextTrend == AddTrendSample
SpecTrend == Init /\ [][NextTrend]_vars

\* Twice the mean of the last two cpu samples of the window, and the sum and the
\* number of the older ones.
RecentTwice == LET n == Len(metrics_window)
               IN  metrics_window[n - 1].cpu + metrics_window[n].cpu
OlderSum    == SumSeq(Column(SubSeq(metrics_window, 1, Len(metrics_window) - 2), "cpu"))
OlderCount  == Len(metrics_window) - 2

\* r > o + d, with r = RecentTwice / 2 and o = OlderSum / OlderCount
RecentAboveOlderBy(d) == OlderCount * RecentTwice > 2 * OlderSum + 2 * OlderCount * Centi(d)
\* r < o - d
RecentBelowOlderBy(d) == OlderCount * RecentTwice < 2 * OlderSum - 2 * OlderCount * Centi(d)

\* C35: the trend get_stats returns is stable for a window of fewer than 4 samples;
\* otherwise it is spiking if r > o + 20, else increasing if r > o + 10, else
\* decreasing if r < o - 10, else stable, r being the mean of the last 2 cpu samples
\* and o the mean of the older ones.
C35_TrendLabel ==
    metrics_window # <<>> =>
        get_stats(metrics_window).trend =
            (IF Len(metrics_window) < 4 THEN "stable"
             ELSE IF RecentAboveOlderBy(20) THEN "spiking"
             ELSE IF RecentAboveOlderBy(10) THEN "increasing"
             ELSE IF RecentBelowOlderBy(10) THEN "decreasing"
             ELSE "stable")

\* A full window whose last two samples lie exactly 20 above the older three: the
\* trend is increasing, not spiking.
C35_Witness ==
    /\ Column(metrics_window, "cpu") =
          <<Centi(20), Centi(20), Centi(20), Centi(40), Centi(40)>>
    /\ get_stats(metrics_window).trend = "increasing"
    /\ ~get_stats(metrics_window).spike_detected

-----------------------------------------------------------------------------
(***************************************************************************)
(* The two threads' execute_scale calls interleaving within one instant:   *)
(* the clock stands still, so every patch is made 0 s after the ones       *)
(* before it.                                                              *)
(***************************************************************************)
NextInstant ==
    \/ BothDecide \/ CheckCooldown \/ ReadWorkload \/ PatchWorkload \/ StampTime
    \/ FinishBoth
SpecInstant == Init /\ [][NextInstant]_vars

\* The call of thread t has patched the workload.
HasPatched(t) ==
    threads[t].pc = "stamp" \/ (threads[t].pc = "done" /\ threads[t].ret)

\* C36: the ingress call made without bypass_cooldown never patches the replica
\* count less than 60 s after the successful patch of the node-health loop's call:
\* it never patches a count that it read after, and in the same instant as, the
\* other call's patch.
C36_CooldownCheckAndPatchAtomic ==
    ~(/\ ~threads["ingress"].bypass_cooldown
      /\ HasPatched("ingress")
      /\ HasPatched("health")
      /\ threads["ingress"].current = threads["health"].new)

-----------------------------------------------------------------------------
(***************************************************************************)
(* node_scaler.py, scale_down, step by step beside the node monitor: the   *)
(* scaler loop's thread cordons the node, then adds the draining taint,    *)
(* then drains, waits and resizes, while the node-health loop's thread and *)
(* the ingress callback call check_node_health.  nsLog holds where the     *)
(* scale_down is (pc) and the node it was given (node).                    *)
(***************************************************************************)
ScaleDownAt(node, pc) == NoNsCall @@ [node |-> node, pc |-> pc]

\* self._cordon_node(node_name): the patch succeeds (ok) or raises, and the call
\* goes on either way.
StepCordon(n, ok) ==
    /\ nsLog.pc = "idle"
    /\ n \in clusterNodes
    /\ nodes[n].ready /\ ~nodes[n].unschedulable /\ ~nodes[n].draining
    /\ Cardinality({m \in clusterNodes : nodes[m].ready}) > min_nodes
    /\ nodes' = [nodes EXCEPT ![n].unschedulable = @ \/ ok]
    /\ nsLog' = ScaleDownAt(n, "cordon_done")
    /\ monLog' = NoMonCall
    /\ UNCHANGED <<now, aggVars, scaleVars, memVars, cbVars, thrVars, pool,
                   ns_last_scale_time, clusterNodes, unhealthy_nodes, quarantined_nodes>>

\* self._mark_node_draining(node_name)
StepTaint(ok) ==
    /\ nsLog.pc = "cordon_done"
    /\ nodes' = [nodes EXCEPT ![nsLog.node].draining = @ \/ ok]
    /\ nsLog' = ScaleDownAt(nsLog.node, "taint_done")
    /\ monLog' = NoMonCall
    /\ UNCHANGED <<now, aggVars, scaleVars, memVars, cbVars, thrVars, pool,
                   ns_last_scale_time, clusterNodes, unhealthy_nodes, quarantined_nodes>>

\* The rest of scale_down: _drain_node, the wait, the resize request and, when it
\* succeeded, _record_scale_action; the cloud then removes the node.
StepResize(ok) ==
    /\ nsLog.pc = "taint_done"
    /\ now' = now + DrainWaitSeconds
    /\ ns_last_scale_time' = IF ok THEN Some(now + DrainWaitSeconds)
                             ELSE ns_last_scale_time
    /\ clusterNodes' = IF ok THEN clusterNodes \ {nsLog.node} ELSE clusterNodes
    /\ nsLog' = ScaleDownAt(nsLog.node, IF ok THEN "returned_true" ELSE "returned_false")
    /\ monLog' = NoMonCall
    /\ UNCHANGED <<aggVars, scaleVars, memVars, cbVars, thrVars, pool,
                   nodes, unhealthy_nodes, quarantined_nodes>>

ScalerCordons == \E n \in Nodes, ok \in BOOLEAN : StepCordon(n, ok)
ScalerTaints  == \E ok \in BOOLEAN : StepTaint(ok)
ScalerResizes == \E ok \in BOOLEAN : StepResize(ok)

InitMarking ==
    /\ now = 0 /\ InitAgg /\ InitScale /\ InitMem /\ InitMon /\ InitCb /\ InitThreads
    /\ pool = Pool(2, 2, 0, 0)
    /\ ns_last_scale_time = None
    /\ nsLog = ScaleDownAt("n1", "idle")

NextMarking ==
    \/ CallCheckThenGetLoss \/ ScalerCordons \/ ScalerTaints \/ ScalerResizes
    \/ NodeFlips
SpecMarking == InitMarking /\ [][NextMarking]_vars

\* The scale_down under way has begun to mark its node and not yet returned.
ScaleDownUnderWay == nsLog.pc \in {"cordon_done", "taint_done"}

\* C37: while a scale_down is cordoning, tainting and draining its node, no
\* check_node_health reports that node in not_ready_nodes or records it in
\* unhealthy_nodes, and the capacity loss that follows does not count it.
C37_DrainedNodeNeverUnhealthy ==
    (ScaleDownUnderWay /\ monLog.called /\ nodes[nsLog.node].ready) =>
        /\ nsLog.node \notin monLog.result.not_ready_nodes
        /\ unhealthy_nodes[nsLog.node] = None

\* C40: when scale_down returns failure, the resize request having raised, the node
\* it was given is schedulable and carries no draining taint, and no scale action
\* was recorded: last_scale_time is as before the call.
C40_FailedScaleDownLeavesNoTrace ==
    nsLog.pc = "returned_false" =>
        /\ ~nodes[nsLog.node].unschedulable
        /\ ~nodes[nsLog.node].draining
        /\ ns_last_scale_time = None

-----------------------------------------------------------------------------
(***************************************************************************)
(* Properties of adjust_memory_limits across calls.                        *)
(***************************************************************************)
\* C38: an adjust_memory_limits call that returns success has written a memory limit
\* strictly greater than the limit it read, so that adjustments repeated from 256Mi
\* on reach max_memory.
C38_SuccessfulAdjustRaisesLimit ==
    (memLog.op = "adjust" /\ memLog.ok) =>
        parse_memory(memLog.new[1]) > parse_memory(memLog.old[1])

-----------------------------------------------------------------------------
(***************************************************************************)
(* Properties of execute_scale on replica counts set by someone else.      *)
(***************************************************************************)
\* C39: whatever replica count the call reads, a successful execute_scale with
\* action up never lowers the replica count and one with action down never raises
\* it.
C39_ScaleMovesInItsDirection ==
    (scaleLog.called /\ scaleLog.patched /\ scaleLog.ret) =>
        /\ scaleLog.action = "up" => replicas >= scaleLog.replicasBefore
        /\ scaleLog.action = "down" => replicas <= scaleLog.replicasBefore

=============================================================================
